---- MODULE Spec2Model ----
(***************************************************************************)
(* A model of the command execution subsystem of the Virtuoso API facade   *)
(* (src/api/app/services/cli_executor.py): command parsing, validation,    *)
(* argument building, the synchronous / pooled / batch / streaming process *)
(* runners, output parsing and error mapping.                              *)
(*                                                                         *)
(* Text.  A Python str is a sequence of atoms.  An atom is a TLA+ string   *)
(* standing for a maximal run of characters of one class: a white space    *)
(* character (" ", "\t", "\n"), a quote character, or a run of other       *)
(* characters ("step-navigate", "12345").  A shell token is again a        *)
(* sequence of atoms (the token  hello world  is <<"hello"," ","world">>,  *)
(* the empty token is <<>>).  Optional[str] is a text or None.             *)
(***************************************************************************)
EXTENDS Integers, Sequences, FiniteSets, TLC

VARIABLES
    now,     \* wall clock (time.time()), in ticks
    api,     \* the client's call of the executor's API and where it stands
    ret,     \* what that call returned or raised
    task,    \* one record per invocation of CLIExecutor.execute
    coll,    \* execute_batch: the collection loop (index, wait start, results)
    shut,    \* whether CLIExecutor.shutdown() has shut the worker pool down
    strm,    \* execute_stream: the async generator and its subprocess
    fn,      \* harness: name of the pure function applied last
    fin,     \* harness: its arguments
    fout,    \* harness: what it returned or raised
    _commands_cache,  \* CLIExecutor._commands_cache
    _cache_lock,      \* CLIExecutor._cache_lock: the thread holding it, 0 if free
    caller,           \* one record per thread calling get_available_commands
    warmed,  \* history: some call stored a non-empty parsed output in the cache
    stopper,          \* the thread that calls CLIExecutor.shutdown()
    _executor,        \* the module's singleton: 0 for None, else the instance
    _lock,            \* the module's lock: the thread holding it, 0 if free
    getter,           \* one record per thread calling get_executor
    constructed,      \* history: the instances CLIExecutor() has built
    route,            \* POST /batch: the synchronous loop of the handler
    time,             \* rate limiting: time.time(), in seconds
    redis_up,         \* whether the Redis server answers
    redis,            \* the counters kept in Redis, per identifier and second
    _connected,       \* RateLimiter._connected of the middleware's limiter
    _local_cache,     \* RateLimiter._local_cache of the middleware's limiter
    request,          \* one record per HTTP request being rate limited
    admitted          \* history: how many requests were let through, by limiter,
                      \* path, identifier and second

pure_vars == <<fn, fin, fout, _commands_cache, _cache_lock, caller, warmed>>
exec_vars == <<now, api, ret, task, coll, shut, strm>>
cache_vars == <<_commands_cache, _cache_lock, caller, warmed>>
down_vars == <<stopper>>
single_vars == <<_executor, _lock, getter, constructed>>
route_vars == <<route>>
rate_vars == <<time, redis_up, redis, _connected, _local_cache, request, admitted>>
other_vars == <<down_vars, single_vars, route_vars, rate_vars>>
vars == <<now, api, ret, task, coll, shut, strm, fn, fin, fout,
          _commands_cache, _cache_lock, caller, warmed, other_vars>>

----------------------------------------------------------------------------
(* Bounds of the model *)

MaxAtoms == 3        \* longest free-form command string, in atoms
MaxTokens == 4       \* most shell words of a well-formed command string
MaxArgs == 2         \* longest args list given to build_command_args

----------------------------------------------------------------------------
(* Python values *)

None == <<"<None>">>            \* Optional[str] = None

Truthy(s) == s # None /\ s # <<>>   \* bool(s) for an Optional[str]

WhiteSpace == {" ", "\t", "\n"}

Quotes == {"\"", "'"}

DigitAtoms == {"1", "7", "12345"}   \* the atoms made of decimal digits only

RECURSIVE lstrip(_)
lstrip(s) ==
    IF s # <<>> /\ Head(s) \in WhiteSpace THEN lstrip(Tail(s)) ELSE s

RECURSIVE rstrip(_)
rstrip(s) ==
    IF s # <<>> /\ s[Len(s)] \in WhiteSpace
    THEN rstrip(SubSeq(s, 1, Len(s) - 1))
    ELSE s

\* str.strip()
strip(s) == rstrip(lstrip(s))

\* str.isdigit(): non-empty and every character a digit
isdigit(s) == s # <<>> /\ \A i \in 1..Len(s) : s[i] \in DigitAtoms

\* shlex.split(s) in POSIX mode.  tok is the token being read, intok whether
\* one is being read (a closed quote leaves an empty token in progress), q the
\* open quote character or "".
RECURSIVE shlex_read(_, _, _, _, _, _)
shlex_read(s, i, tok, intok, q, acc) ==
    IF i > Len(s)
    THEN IF q # ""
         THEN [err |-> TRUE, parts |-> <<>>]   \* ValueError: No closing quotation
         ELSE [err |-> FALSE, parts |-> IF intok THEN Append(acc, tok) ELSE acc]
    ELSE LET a == s[i] IN
         IF q # ""
         THEN IF a = q
              THEN shlex_read(s, i + 1, tok, TRUE, "", acc)
              ELSE shlex_read(s, i + 1, Append(tok, a), TRUE, q, acc)
         ELSE IF a \in WhiteSpace
              THEN IF intok
                   THEN shlex_read(s, i + 1, <<>>, FALSE, "", Append(acc, tok))
                   ELSE shlex_read(s, i + 1, <<>>, FALSE, "", acc)
              ELSE IF a \in Quotes
                   THEN shlex_read(s, i + 1, tok, TRUE, a, acc)
                   ELSE shlex_read(s, i + 1, Append(tok, a), TRUE, "", acc)

shlex_split(s) == shlex_read(s, 1, <<>>, FALSE, "", <<>>)

----------------------------------------------------------------------------
(* Exceptions and class constants *)

NoExc == ""
CommandValidationError == "CommandValidationError"
CommandTimeoutError == "CommandTimeoutError"
ValueError == "ValueError"
OSError == "OSError"
RuntimeError == "RuntimeError"
FutureTimeoutError == "concurrent.futures.TimeoutError"
CancelledError == "asyncio.CancelledError"

CHECKPOINT_COMMANDS ==
    { <<"step-assert">>, <<"step-interact">>, <<"step-navigate">>,
      <<"step-window">>, <<"step-data">>, <<"step-dialog">>, <<"step-wait">>,
      <<"step-file">>, <<"step-misc">>, <<"library">> }

JSON == "json"
YAML == "yaml"
HUMAN == "human"
AI == "ai"
RAW == "raw"
OutputFormat == {JSON, YAML, HUMAN, AI, RAW}

\* CommandContext; NoContext stands for context=None
NoTimeout == -1                 \* timeout: Optional[float] = None
EnvKeys == {"PATH", "VIRTUOSO_API_KEY", "VIRTUOSO_SESSION_ID", "CUSTOM_VAR"}
EmptyEnv == [k \in EnvKeys |-> None]   \* a dict is a function; None = key absent
CommandContext(rid, sid, tmo, envr) ==
    [request_id |-> rid, session_id |-> sid, timeout |-> tmo, environment |-> envr]
NoContext == CommandContext("<None>", None, NoTimeout, EmptyEnv)

----------------------------------------------------------------------------
(* parse_command *)

Parsed(c, sub, ck, a) ==
    [exc |-> NoExc, msg |-> <<>>, cmd |-> c, subcommand |-> sub,
     checkpoint_id |-> ck, args |-> a]

ParseRaise(e, m) ==
    [exc |-> e, msg |-> m, cmd |-> None, subcommand |-> None,
     checkpoint_id |-> None, args |-> <<>>]

\* command.startswith("api-cli ")
has_cli_prefix(command) ==
    Len(command) >= 2 /\ command[1] = "api-cli" /\ command[2] = " "

\* a faulty variant: the third word is the checkpoint id whatever it is
parse_parts_any_third(parts) ==
    LET cmd == parts[1] IN
    IF Len(parts) > 1
    THEN IF cmd \in CHECKPOINT_COMMANDS
         THEN IF Len(parts) > 2
              THEN Parsed(cmd, parts[2], parts[3], SubSeq(parts, 4, Len(parts)))
              ELSE Parsed(cmd, parts[2], None, SubSeq(parts, 3, Len(parts)))
         ELSE Parsed(cmd, None, None, Tail(parts))
    ELSE Parsed(cmd, None, None, <<>>)

\* parse_command, once shlex.split has given a non-empty list of words
parse_parts(parts) ==
    LET cmd == parts[1] IN
    IF Len(parts) > 1
    THEN IF cmd \in CHECKPOINT_COMMANDS
         THEN IF Len(parts) > 2 /\ isdigit(parts[3])
              THEN Parsed(cmd, parts[2], parts[3], SubSeq(parts, 4, Len(parts)))
              ELSE Parsed(cmd, parts[2], None, SubSeq(parts, 3, Len(parts)))
         ELSE Parsed(cmd, None, None, Tail(parts))
    ELSE Parsed(cmd, None, None, <<>>)

parse_command(command0) ==
    LET command == strip(command0) IN
    IF command = <<>>
    THEN ParseRaise(CommandValidationError, <<"Empty command">>)
    ELSE LET rest == IF has_cli_prefix(command)
                     THEN SubSeq(command, 3, Len(command))
                     ELSE command
             sp == shlex_split(rest)
         IN  IF sp.err
             THEN ParseRaise(ValueError, <<"No closing quotation">>)
             ELSE IF sp.parts = <<>>
                  THEN ParseRaise(CommandValidationError, <<"No command specified">>)
                  ELSE parse_parts(sp.parts)

----------------------------------------------------------------------------
(* validate_command: the exception it raises, NoExc when it returns *)

\* a faulty variant: the session id of the context is not consulted
validate_command_no_session(command, subcommand, checkpoint_id, context) ==
    IF command \in CHECKPOINT_COMMANDS
    THEN IF ~Truthy(checkpoint_id) /\ command # <<"library">>
         THEN CommandValidationError
         ELSE NoExc
    ELSE NoExc

validate_command(command, subcommand, checkpoint_id, context) ==
    IF command \in CHECKPOINT_COMMANDS
    THEN LET ck == IF ~Truthy(checkpoint_id) /\ context # NoContext
                   THEN context.session_id
                   ELSE checkpoint_id
         IN  IF ~Truthy(ck) /\ command # <<"library">>
             THEN CommandValidationError
             ELSE NoExc
    ELSE NoExc

validate_message(command) ==
    <<"Command '">> \o command \o
    <<"' requires checkpoint ID. Provide it explicitly or set VIRTUOSO_SESSION_ID">>

----------------------------------------------------------------------------
(* build_command_args *)

cli_path == <<"/usr/local/bin/api-cli">>     \* self.cli_path, one argv entry

\* a faulty variant: the output option is appended for every format
build_command_args_always_output(command, subcommand, checkpoint_id, args, output_format) ==
    <<cli_path, command>>
    \o (IF Truthy(subcommand) THEN <<subcommand>> ELSE <<>>)
    \o (IF Truthy(checkpoint_id) THEN <<checkpoint_id>> ELSE <<>>)
    \o args
    \o << <<"--output">>, <<output_format>> >>

build_command_args(command, subcommand, checkpoint_id, args, output_format) ==
    <<cli_path, command>>
    \o (IF Truthy(subcommand) THEN <<subcommand>> ELSE <<>>)
    \o (IF Truthy(checkpoint_id) THEN <<checkpoint_id>> ELSE <<>>)
    \o args
    \o (IF output_format # RAW THEN << <<"--output">>, <<output_format>> >> ELSE <<>>)

\* the caller's args list after build_command_args returned: the function
\* extends its own cmd_args list and never writes to args
build_command_args_leaves(args) == args

----------------------------------------------------------------------------
(* _parse_output and _get_error_message *)

\* parsed_output: None, a str (the raw text) or a decoded dict
NoParsed == [t |-> "None", v |-> <<>>]
ParsedStr(s) == [t |-> "str", v |-> s]
ParsedDict(d) == [t |-> "dict", v |-> d]

\* json.loads on the documents of the model: white space around a document is
\* ignored; anything that is not a document raises JSONDecodeError.
json_loads(output) ==
    LET doc == strip(output) IN
    IF doc = <<"{\"id\": 1}">>
    THEN [ok |-> TRUE, v |-> ParsedDict(<<"id", "1">>)]
    ELSE IF doc = <<"{\"id\": 2}">>
         THEN [ok |-> TRUE, v |-> ParsedDict(<<"id", "2">>)]
         ELSE IF doc = <<"{}">>
              THEN [ok |-> TRUE, v |-> ParsedDict(<<>>)]
              ELSE [ok |-> FALSE, v |-> NoParsed]

\* yaml.safe_load: a JSON object is a YAML flow mapping, a block mapping is a
\* dict, a plain word is a str scalar, an unclosed flow mapping raises.
yaml_safe_load(output) ==
    LET doc == strip(output) IN
    IF doc = <<"{\"id\": 1}">> \/ doc = <<"id: 1">>
    THEN [ok |-> TRUE, v |-> ParsedDict(<<"id", "1">>)]
    ELSE IF doc = <<"{\"id\": 2}">>
    THEN [ok |-> TRUE, v |-> ParsedDict(<<"id", "2">>)]
    ELSE IF doc = <<"{}">>
    THEN [ok |-> TRUE, v |-> ParsedDict(<<>>)]
    ELSE IF doc = <<"{oops">>
         THEN [ok |-> FALSE, v |-> NoParsed]
         ELSE [ok |-> TRUE, v |-> ParsedStr(doc)]

\* the try block of _parse_output: what it returns, or the exception the
\* decoder raises
parse_output_try(output, format_type) ==
    IF format_type = JSON
    THEN [exc |-> IF json_loads(output).ok THEN NoExc ELSE "JSONDecodeError",
          v |-> json_loads(output).v]
    ELSE IF format_type = YAML
         THEN [exc |-> IF yaml_safe_load(output).ok THEN NoExc ELSE "YAMLError",
               v |-> yaml_safe_load(output).v]
         ELSE [exc |-> NoExc, v |-> ParsedStr(output)]

\* a faulty variant: the handler gives None, as the docstring says
parse_output_except_none(e, output) == [exc |-> NoExc, v |-> NoParsed]

\* except Exception as e: log a warning, return output
parse_output_except(e, output) == [exc |-> NoExc, v |-> ParsedStr(output)]

\* _parse_output as a call: the value returned and the exception raised
parse_output_call(output, format_type) ==
    IF strip(output) = <<>>
    THEN [exc |-> NoExc, v |-> NoParsed]
    ELSE LET t == parse_output_try(output, format_type) IN
         IF t.exc # NoExc THEN parse_output_except(t.exc, output) ELSE t

_parse_output(output, format_type) == parse_output_call(output, format_type).v

EXIT_CODES ==
    [c \in (0..9) \cup {127} |->
        CASE c = 0 -> <<"Success">>
          [] c = 1 -> <<"General error">>
          [] c = 2 -> <<"Command line parsing error">>
          [] c = 3 -> <<"Authentication error">>
          [] c = 4 -> <<"Configuration error">>
          [] c = 5 -> <<"Resource not found">>
          [] c = 6 -> <<"Validation error">>
          [] c = 7 -> <<"API error">>
          [] c = 8 -> <<"Timeout error">>
          [] c = 9 -> <<"Permission denied">>
          [] c = 127 -> <<"Command not found">>]

\* a faulty variant: stderr is appended as it is, whenever it is not empty
_get_error_message_untrimmed(exit_code, stderr) ==
    LET base_msg == IF exit_code \in DOMAIN EXIT_CODES
                    THEN EXIT_CODES[exit_code]
                    ELSE <<"Unknown error (code: ", ToString(exit_code), ")">>
    IN  IF stderr # <<>>
        THEN base_msg \o <<": ">> \o stderr
        ELSE base_msg

_get_error_message(exit_code, stderr) ==
    LET base_msg == IF exit_code \in DOMAIN EXIT_CODES
                    THEN EXIT_CODES[exit_code]
                    ELSE <<"Unknown error (code: ", ToString(exit_code), ")">>
    IN  IF strip(stderr) # <<>>
        THEN base_msg \o <<": ">> \o strip(stderr)
        ELSE base_msg

----------------------------------------------------------------------------
(* CommandResult and the subprocess *)

CommandResult(success, exit_code, stdout, stderr, duration, command, output_format, parsed_output, error) ==
    [success |-> success, exit_code |-> exit_code, stdout |-> stdout,
     stderr |-> stderr, duration |-> duration, command |-> command,
     output_format |-> output_format, parsed_output |-> parsed_output,
     error |-> error]

NoResult == CommandResult(FALSE, 0, <<>>, <<>>, 0, <<>>, "<None>", NoParsed, None)

\* What a spawned CLI process does: whether it ever exits by itself, after how
\* many ticks, and with what exit code and output.
Behaviour(exits, dur, code, out, err) ==
    [exits |-> exits, dur |-> dur, exit_code |-> code, stdout |-> out,
     stderr |-> err]

NoBehaviour == Behaviour(FALSE, 0, 0, <<>>, <<>>)

NoProc == [argv |-> <<>>, env |-> EmptyEnv, spawned_at |-> 0, beh |-> NoBehaviour]

\* dict.update
update(env, other) == [k \in EnvKeys |-> IF other[k] # None THEN other[k] ELSE env[k]]

os_environ ==
    [EmptyEnv EXCEPT !["PATH"] = <<"/usr/bin">>, !["VIRTUOSO_API_KEY"] = <<"stale">>]

\* settings.get_cli_env(): os.environ plus the configured platform variables
get_cli_env == [os_environ EXCEPT !["VIRTUOSO_API_KEY"] = <<"key">>]

\* a faulty variant: context.environment is applied after the session id
process_env_context_last(context) ==
    LET env == update(os_environ, get_cli_env)
        with_sid == IF Truthy(context.session_id)
                    THEN [env EXCEPT !["VIRTUOSO_SESSION_ID"] = context.session_id]
                    ELSE env
    IN  update(with_sid, context.environment)

\* the env dict execute and execute_stream pass to the subprocess
process_env(context) ==
    LET env == update(update(os_environ, get_cli_env), context.environment) IN
    IF Truthy(context.session_id)
    THEN [env EXCEPT !["VIRTUOSO_SESSION_ID"] = context.session_id]
    ELSE env

----------------------------------------------------------------------------
(* CLIExecutor: construction parameters of the modelled instance *)

default_timeout == 2     \* CLIExecutor(default_timeout=...)
max_workers == 2         \* CLIExecutor(max_workers=...)

----------------------------------------------------------------------------
(* One invocation of CLIExecutor.execute *)

Task(pc, command, context, output_format) ==
    [pc |-> pc,                 \* "start", "queued", "running", "returned", "raised"
     command |-> command, context |-> context, output_format |-> output_format,
     start_time |-> 0,
     end_time |-> 0,            \* when the invocation returned or raised
     spawns |-> 0,              \* subprocess.Popen calls that started a process
     kills |-> 0,               \* process.kill() calls
     proc |-> NoProc,
     result |-> NoResult,       \* the CommandResult returned, when pc = "returned"
     exc |-> NoExc, msg |-> <<>>]   \* the exception raised, when pc = "raised"

\* context = context or CommandContext(request_id="sync")
default_context(context, rid) ==
    IF context = NoContext THEN CommandContext(rid, None, NoTimeout, EmptyEnv)
    ELSE context

\* a faulty variant: parsing alone, validate_command is not called
parse_only(command, context) == parse_command(command)

\* parse_command then validate_command, as execute and execute_stream call
\* them: the parsed command, or the exception one of the two raised
parse_and_validate(command, context) ==
    LET p == parse_command(command) IN
    IF p.exc # NoExc
    THEN p
    ELSE IF validate_command(p.cmd, p.subcommand, p.checkpoint_id, context) # NoExc
         THEN [p EXCEPT !.exc = validate_command(p.cmd, p.subcommand,
                                                 p.checkpoint_id, context),
                        !.msg = validate_message(p.cmd)]
         ELSE p

\* a faulty variant: the internal-error result carries exit code 1
exception_result_code1(t, e_msg) ==
    CommandResult(FALSE, 1, <<>>, e_msg, now - t.start_time, <<t.command>>,
                  t.output_format, NoParsed, e_msg)

\* the CommandResult built in the except Exception branch of execute
exception_result(t, e_msg) ==
    CommandResult(FALSE, -1, <<>>, e_msg, now - t.start_time, <<t.command>>,
                  t.output_format, NoParsed, e_msg)

\* a faulty variant: validation errors are re-raised like timeouts
execute_except_reraise(t, exc, msg) ==
    IF exc \in {CommandTimeoutError, CommandValidationError}
    THEN [t EXCEPT !.pc = "raised", !.end_time = now, !.exc = exc, !.msg = msg]
    ELSE [t EXCEPT !.pc = "returned", !.end_time = now,
                   !.result = exception_result(t, msg)]

\* the except clauses of execute: a CommandTimeoutError is re-raised, any
\* other Exception becomes a CommandResult
execute_except(t, exc, msg) ==
    IF exc = CommandTimeoutError
    THEN [t EXCEPT !.pc = "raised", !.end_time = now, !.exc = exc, !.msg = msg]
    ELSE [t EXCEPT !.pc = "returned", !.end_time = now,
                   !.result = exception_result(t, msg)]

\* execute, from its first line to the Popen call: the task either ends in an
\* except clause (parse, validation or spawn failure) or waits in communicate
execute_begin(t0, spawn_ok, beh) ==
    LET t == [t0 EXCEPT !.start_time = now]
        context == default_context(t.context, "sync")
        p == parse_and_validate(t.command, context)
    IN  IF p.exc # NoExc
        THEN execute_except(t, p.exc, p.msg)
        ELSE IF ~spawn_ok
             THEN execute_except(t, OSError, <<"[Errno 2] No such file or directory">>)
             ELSE [t EXCEPT !.pc = "running",
                            !.context = context,
                            !.spawns = @ + 1,
                            !.proc = [argv |-> build_command_args(p.cmd, p.subcommand,
                                                  p.checkpoint_id, p.args, t.output_format),
                                      env |-> process_env(context),
                                      spawned_at |-> now,
                                      beh |-> beh]]

\* timeout = context.timeout or self.default_timeout
effective_timeout(context) ==
    IF context.timeout = NoTimeout \/ context.timeout = 0
    THEN default_timeout
    ELSE context.timeout

\* communicate(timeout=timeout) returns: the process exits before the timeout
exits_in_time(t) ==
    t.proc.beh.exits /\ t.proc.beh.dur <= effective_timeout(t.context)

\* a faulty variant: any exit code that is not negative counts as success
result_success_nonneg(exit_code) == exit_code >= 0

\* success = exit_code == 0
result_success(exit_code) == exit_code = 0

\* a faulty variant: the message is set whatever the outcome
result_error_always(success, exit_code, stderr) ==
    _get_error_message(exit_code, stderr)

\* error_msg = None; if not success: error_msg = self._get_error_message(...)
result_error(success, exit_code, stderr) ==
    IF ~success THEN _get_error_message(exit_code, stderr) ELSE None

\* a faulty variant: a non-zero exit code raises CommandExecutionError
execute_finish_raising(t) ==
    LET b == t.proc.beh
        parsed_output == IF b.stdout # <<>> /\ t.output_format # RAW
                         THEN _parse_output(b.stdout, t.output_format)
                         ELSE NoParsed
    IN  IF b.exit_code # 0
        THEN [t EXCEPT !.pc = "raised", !.end_time = now,
                       !.exc = "CommandExecutionError",
                       !.msg = _get_error_message(b.exit_code, b.stderr)]
        ELSE [t EXCEPT !.pc = "returned",
                       !.end_time = now,
                       !.result = CommandResult(TRUE, b.exit_code, b.stdout, b.stderr,
                                      now - t.start_time, t.proc.argv, t.output_format,
                                      parsed_output, None)]

\* execute, after communicate returned stdout, stderr and the return code
execute_finish(t) ==
    LET b == t.proc.beh
        parsed_output == IF b.stdout # <<>> /\ t.output_format # RAW
                         THEN _parse_output(b.stdout, t.output_format)
                         ELSE NoParsed
        success == result_success(b.exit_code)
        error_msg == result_error(success, b.exit_code, b.stderr)
    IN  [t EXCEPT !.pc = "returned",
                  !.end_time = now,
                  !.result = CommandResult(success, b.exit_code, b.stdout, b.stderr,
                                 now - t.start_time, t.proc.argv, t.output_format,
                                 parsed_output, error_msg)]

\* a faulty variant: the timeout is raised without killing the process
execute_timeout_nokill(t) ==
    execute_except(t, CommandTimeoutError,
                   <<"Command timed out after ", ToString(effective_timeout(t.context)),
                     " seconds">>)

\* execute, when communicate raises TimeoutExpired: process.kill(), drain the
\* pipes, raise CommandTimeoutError (which the except clause re-raises)
execute_timeout(t) ==
    execute_except([t EXCEPT !.kills = @ + 1], CommandTimeoutError,
                   <<"Command timed out after ", ToString(effective_timeout(t.context)),
                     " seconds">>)

----------------------------------------------------------------------------
(* Inputs of the executor model *)

MaxBatch == 3        \* longest command list given to execute_batch

c_empty == <<>>
c_blank == <<" ">>
c_list == <<"list-projects">>
c_prefixed == <<"api-cli", " ", "list-projects", " ", "--format", " ", "json">>
c_navigate == <<"step-navigate", " ", "to", " ", "12345", " ",
                "\"", "https://example.com", "\"">>
c_click == <<"step-interact", " ", "click", " ", "\"", "button", "\"">>
c_library == <<"library", " ", "get">>
c_unclosed == <<"ls", " ", "\"", "x">>

ExecCommands ==
    {c_empty, c_blank, c_list, c_prefixed, c_navigate, c_click, c_library, c_unclosed}

ExecContexts ==
    {NoContext} \cup
    { CommandContext("req-1", sid, tmo, envr) :
        sid \in {None, <<"12345">>},
        tmo \in {NoTimeout, 1, 3},
        envr \in {EmptyEnv,
                  [EmptyEnv EXCEPT !["VIRTUOSO_SESSION_ID"] = <<"999">>,
                                   !["VIRTUOSO_API_KEY"] = <<"other">>,
                                   !["CUSTOM_VAR"] = <<"test">>]} }

ExecFormats == {JSON, YAML, HUMAN, RAW}

Behaviours ==
    { Behaviour(TRUE, 1, 0, <<"{\"id\": 1}", "\n">>, <<>>),
      Behaviour(TRUE, 1, 0, <<"not json">>, <<>>),
      Behaviour(TRUE, 2, 0, <<"\n">>, <<>>),
      Behaviour(TRUE, 3, 0, <<"id: 1">>, <<>>),
      Behaviour(TRUE, 1, 5, <<>>, <<"x not found", "\n">>),
      Behaviour(TRUE, 2, 8, <<>>, <<>>),
      Behaviour(TRUE, 3, 42, <<"{oops">>, <<" ">>),
      Behaviour(FALSE, 0, 0, <<>>, <<>>) }

BatchCommands == {c_list, c_click, c_empty}

BatchContexts ==
    { NoContext,
      CommandContext("req-1", <<"12345">>, 3, EmptyEnv),
      CommandContext("req-1", None, 1, EmptyEnv) }

BatchBehaviours ==
    { Behaviour(TRUE, 1, 0, <<"{\"id\": 1}", "\n">>, <<>>),
      Behaviour(TRUE, 1, 5, <<>>, <<"x not found", "\n">>),
      Behaviour(TRUE, 3, 0, <<"id: 1">>, <<>>),
      Behaviour(FALSE, 0, 0, <<>>, <<>>) }

\* max_concurrent of execute_batch: None (written 0) or a number below max_workers
MaxConcurrents == {0, 1}

\* the commands of a batch that runs while the executor is shut down
PoolCommands == {c_list}

StreamCommands == {c_empty, c_list, c_navigate, c_click, c_unclosed}

StreamContexts == {NoContext, CommandContext("req-1", <<"12345">>, NoTimeout, EmptyEnv)}

StreamFormats == {JSON, RAW}

\* what a streamed CLI process writes to stdout, line by line, and how it ends
StreamBehaviour(lines, code, err) == [lines |-> lines, exit_code |-> code, stderr |-> err]

StreamBehaviours ==
    { StreamBehaviour(ls, e[1], e[2]) :
        ls \in { <<>>, << <<"Line 1", "\n">> >>,
                 << <<"Line 1", "\n">>, <<"Line 2", " ", "\n">> >> },
        e \in { <<0, <<>> >>, <<5, <<"x not found", "\n">> >>, <<1, <<>> >> } }

RECURSIVE SeqsUpTo(_, _)
SeqsUpTo(S, n) ==
    IF n = 0 THEN {<<>>}
    ELSE LET shorter == SeqsUpTo(S, n - 1) IN
         shorter \cup {Append(s, x) : s \in {t \in shorter : Len(t) = n - 1}, x \in S}

----------------------------------------------------------------------------
(* State of the executor model *)

Api(op, pc) == [op |-> op, pc |-> pc]

Ret(kind, exc, msg, results) ==
    [kind |-> kind,            \* "none", "returned", "raised"
     exc |-> exc, msg |-> msg, \* the exception raised to the caller
     results |-> results]      \* the CommandResult(s) returned to the caller

Coll(i, wait_from, results, max_concurrent) ==
    [i |-> i, wait_from |-> wait_from, results |-> results,
     max_concurrent |-> max_concurrent]  \* the argument of the call, 0 for None

Stream(pc, command, context, output_format) ==
    [pc |-> pc,       \* "none", "created", "reading", "yielded", "waiting",
                      \* "yielded_error", "closed", "abandoned"
     command |-> command, context |-> context, output_format |-> output_format,
     spawns |-> 0,    \* asyncio.create_subprocess_exec calls that started a process
     kills |-> 0,     \* process.kill() calls
     alive |-> FALSE, \* the subprocess is started and not yet waited for
     argv |-> <<>>, env |-> EmptyEnv,
     beh |-> StreamBehaviour(<<>>, 0, <<>>),
     pos |-> 0,       \* lines of stdout read so far
     out |-> <<>>]    \* what the generator has yielded to its consumer

NoStream == Stream("none", <<>>, NoContext, "<None>")

Stopper(pc, waited) ==
    [pc |-> pc,            \* "idle", "waiting", "returned"
     waited |-> waited]    \* work items were queued or running when shutdown was called

ExecInit ==
    /\ now = 0
    /\ api = Api("idle", "idle")
    /\ ret = Ret("none", NoExc, <<>>, <<>>)
    /\ task = <<>>
    /\ coll = Coll(0, 0, <<>>, 0)
    /\ shut = FALSE
    /\ strm = NoStream
    /\ stopper = Stopper("idle", FALSE)

Tasks == 1..Len(task)

Finished(i) == task[i].pc \in {"returned", "raised"}

\* worker threads of the pool inside execute
Busy == {i \in Tasks : task[i].pc = "running" /\ api.op # "execute"}

\* the work queue of the ThreadPoolExecutor is first in, first out
FirstQueued(i) ==
    /\ task[i].pc = "queued"
    /\ \A j \in Tasks : j < i => task[j].pc # "queued"

\* a faulty variant: a queued work item starts whether or not a worker is free
CanBegin_unbounded(i) ==
    \/ task[i].pc = "start"
    \/ FirstQueued(i)

CanBegin(i) ==
    \/ task[i].pc = "start"
    \/ FirstQueued(i) /\ Cardinality(Busy) < max_workers

ExitDue(i) ==
    /\ task[i].pc = "running"
    /\ exits_in_time(task[i])
    /\ now = task[i].proc.spawned_at + task[i].proc.beh.dur

TimeoutDue(i) ==
    /\ task[i].pc = "running"
    /\ ~exits_in_time(task[i])
    /\ now = task[i].proc.spawned_at + effective_timeout(task[i].context)

\* what the caller of execute gets when the invocation ends in its own thread
ret_of(t) ==
    IF t.pc = "returned" THEN Ret("returned", NoExc, <<>>, <<t.result>>)
    ELSE Ret("raised", t.exc, t.msg, <<>>)

\* the task record changes; a synchronous caller gets the outcome at once
TaskEnds(i, t) ==
    /\ task' = [task EXCEPT ![i] = t]
    /\ IF api.op = "execute" /\ t.pc \in {"returned", "raised"}
       THEN /\ api' = Api(api.op, t.pc)
            /\ ret' = ret_of(t)
       ELSE UNCHANGED <<api, ret>>

----------------------------------------------------------------------------
(* The client's calls *)

\* CLIExecutor.execute(command, context, output_format), in the caller's thread
Call_execute ==
    /\ api.op = "idle"
    /\ \E cmd \in ExecCommands, ctx \in ExecContexts, fmt \in ExecFormats :
           /\ api' = Api("execute", "running")
           /\ task' = <<Task("start", cmd, ctx, fmt)>>
           /\ UNCHANGED <<now, ret, coll, shut, strm, fn, fin, fout, _commands_cache, _cache_lock, caller, warmed, other_vars>>

\* CLIExecutor.execute_async: loop.run_in_executor(self.executor, self.execute, ...)
Call_execute_async ==
    /\ api.op = "idle"
    /\ \E cmd \in ExecCommands, ctx \in ExecContexts, fmt \in ExecFormats :
           /\ IF shut
              THEN /\ api' = Api("execute_async", "raised")
                   /\ ret' = Ret("raised", RuntimeError,
                                 <<"cannot schedule new futures after shutdown">>, <<>>)
                   /\ UNCHANGED task
              ELSE /\ api' = Api("execute_async", "running")
                   /\ task' = <<Task("queued", cmd, ctx, fmt)>>
                   /\ UNCHANGED ret
           /\ UNCHANGED <<now, coll, shut, strm, fn, fin, fout, _commands_cache, _cache_lock, caller, warmed, other_vars>>

\* CLIExecutor.execute_batch: max_concurrent = max_concurrent or
\* self.executor._max_workers is assigned and never read; then the submission
\* loop hands every command to the pool
execute_batch_submit(commands, contexts, max_concurrents) ==
    /\ api.op = "idle"
    /\ \E cmds \in commands, ctx \in contexts, max_concurrent \in max_concurrents :
           /\ IF shut /\ cmds # <<>>
              THEN /\ api' = Api("execute_batch", "raised")
                   /\ ret' = Ret("raised", RuntimeError,
                                 <<"cannot schedule new futures after shutdown">>, <<>>)
                   /\ UNCHANGED <<task, coll>>
              ELSE /\ api' = Api("execute_batch", "running")
                   /\ task' = [i \in 1..Len(cmds) |-> Task("queued", cmds[i], ctx, JSON)]
                   /\ coll' = Coll(1, now, <<>>, max_concurrent)
                   /\ UNCHANGED ret
           /\ UNCHANGED <<now, shut, strm, fn, fin, fout, _commands_cache, _cache_lock, caller, warmed, other_vars>>

\* execute_batch called without max_concurrent
Call_execute_batch ==
    execute_batch_submit(SeqsUpTo(BatchCommands, MaxBatch), BatchContexts, {0})

\* execute_batch called with or without max_concurrent, by a client that
\* shares the executor with the thread that shuts it down
Call_execute_batch_max_concurrent ==
    execute_batch_submit(SeqsUpTo(PoolCommands, MaxBatch), BatchContexts, MaxConcurrents)

\* the work items of the pool: execute_async and execute_batch submit to it,
\* execute runs in its caller's thread
PoolTasks == IF api.op \in {"execute_async", "execute_batch"} THEN Tasks ELSE {}

\* CLIExecutor.shutdown: self.executor.shutdown(wait=True) marks the pool as
\* shut down and then joins the workers; with no work item pending it returns
\* at once
shutdown ==
    /\ ~shut
    /\ shut' = TRUE
    /\ stopper' = IF \A i \in PoolTasks : Finished(i)
                  THEN Stopper("returned", FALSE)
                  ELSE Stopper("waiting", TRUE)
    /\ UNCHANGED <<now, api, ret, task, coll, strm, fn, fin, fout, _commands_cache, _cache_lock, caller, warmed, single_vars, route_vars, rate_vars>>

\* shutdown called before the client's call
Call_shutdown ==
    /\ api.op = "idle"
    /\ shutdown

\* shutdown called by another thread than the client's (at process exit),
\* before, during or after the client's call
Call_shutdown_concurrently == shutdown

\* a faulty variant: shutdown(wait=False), which returns at once
ShutdownReturn_nowait ==
    /\ stopper.pc = "waiting"
    /\ stopper' = [stopper EXCEPT !.pc = "returned"]
    /\ UNCHANGED <<now, api, ret, task, coll, shut, strm, fn, fin, fout, _commands_cache, _cache_lock, caller, warmed, single_vars, route_vars, rate_vars>>

\* the workers leave their loop when the queue is empty, the joins end and
\* shutdown returns
ShutdownReturn ==
    /\ stopper.pc = "waiting"
    /\ \A i \in PoolTasks : Finished(i)
    /\ stopper' = [stopper EXCEPT !.pc = "returned"]
    /\ UNCHANGED <<now, api, ret, task, coll, shut, strm, fn, fin, fout, _commands_cache, _cache_lock, caller, warmed, single_vars, route_vars, rate_vars>>

----------------------------------------------------------------------------
(* Steps of an invocation of execute, in the caller's or a worker's thread *)

ExecuteBegin(i) ==
    /\ CanBegin(i)
    /\ \E spawn_ok \in BOOLEAN :
       \E beh \in (IF ~spawn_ok THEN {NoBehaviour}
                   ELSE IF api.op = "execute_batch" THEN BatchBehaviours
                   ELSE Behaviours) :
          TaskEnds(i, execute_begin(task[i], spawn_ok, beh))
    /\ UNCHANGED <<now, coll, shut, strm, fn, fin, fout, _commands_cache, _cache_lock, caller, warmed, other_vars>>

ProcessExit(i) ==
    /\ ExitDue(i)
    /\ TaskEnds(i, execute_finish(task[i]))
    /\ UNCHANGED <<now, coll, shut, strm, fn, fin, fout, _commands_cache, _cache_lock, caller, warmed, other_vars>>

ProcessTimeout(i) ==
    /\ TimeoutDue(i)
    /\ TaskEnds(i, execute_timeout(task[i]))
    /\ UNCHANGED <<now, coll, shut, strm, fn, fin, fout, _commands_cache, _cache_lock, caller, warmed, other_vars>>

----------------------------------------------------------------------------
(* execute_async: the awaiting coroutine resumes with the future's outcome *)

CanResume == api = Api("execute_async", "running") /\ Finished(1)

AsyncResume ==
    /\ CanResume
    /\ api' = Api(api.op, task[1].pc)
    /\ ret' = ret_of(task[1])
    /\ UNCHANGED <<now, task, coll, shut, strm, fn, fin, fout, _commands_cache, _cache_lock, caller, warmed, other_vars>>

----------------------------------------------------------------------------
(* execute_batch: the collection loop *)

Collecting == api = Api("execute_batch", "running") /\ coll.i \in Tasks

CanCollect == Collecting /\ Finished(coll.i)

CollectTimeoutDue ==
    /\ Collecting
    /\ ~Finished(coll.i)
    /\ now = coll.wait_from + default_timeout

\* the except FutureTimeoutError branch
batch_timeout_result(t) ==
    CommandResult(FALSE, 8, <<>>, <<"Command timed out">>, default_timeout,
                  <<t.command>>, t.output_format, NoParsed, <<"Timeout">>)

\* the except Exception branch
batch_error_result(t) ==
    CommandResult(FALSE, -1, <<>>, t.msg, 0, <<t.command>>, t.output_format,
                  NoParsed, t.msg)

\* future.result(timeout=self.default_timeout) returns or raises what execute did
batch_collect(t) ==
    IF t.pc = "returned" THEN t.result ELSE batch_error_result(t)

\* a faulty variant: results.insert(0, result)
results_append_front(results, r) == <<r>> \o results

\* results.append(result)
results_append(results, r) == Append(results, r)

BatchCollect ==
    /\ CanCollect
    /\ coll' = Coll(coll.i + 1, now,
                    results_append(coll.results, batch_collect(task[coll.i])),
                    coll.max_concurrent)
    /\ UNCHANGED <<now, api, ret, task, shut, strm, fn, fin, fout, _commands_cache, _cache_lock, caller, warmed, other_vars>>

BatchCollectTimeout ==
    /\ CollectTimeoutDue
    /\ coll' = Coll(coll.i + 1, now,
                    results_append(coll.results, batch_timeout_result(task[coll.i])),
                    coll.max_concurrent)
    /\ UNCHANGED <<now, api, ret, task, shut, strm, fn, fin, fout, _commands_cache, _cache_lock, caller, warmed, other_vars>>

CanReturn == api = Api("execute_batch", "running") /\ coll.i = Len(task) + 1

BatchReturn ==
    /\ CanReturn
    /\ api' = Api(api.op, "returned")
    /\ ret' = Ret("returned", NoExc, <<>>, coll.results)
    /\ UNCHANGED <<now, task, coll, shut, strm, fn, fin, fout, _commands_cache, _cache_lock, caller, warmed, other_vars>>

----------------------------------------------------------------------------
(* execute_stream *)

\* calling execute_stream only creates the async generator: no code of it runs
Call_execute_stream ==
    /\ api.op = "idle"
    /\ \E cmd \in StreamCommands, ctx \in StreamContexts, fmt \in StreamFormats :
           /\ api' = Api("execute_stream", "running")
           /\ strm' = Stream("created", cmd, ctx, fmt)
           /\ UNCHANGED <<now, ret, task, coll, shut, fn, fin, fout, _commands_cache, _cache_lock, caller, warmed, other_vars>>

\* the generator, from its first line to create_subprocess_exec: what parse,
\* validation or the spawn raise propagates to the consumer
stream_begin(g, spawn_ok, beh) ==
    LET context == default_context(g.context, "stream")
        p == parse_and_validate(g.command, context)
    IN  IF p.exc # NoExc
        THEN [g |-> [g EXCEPT !.pc = "closed"], r |-> Ret("raised", p.exc, p.msg, <<>>)]
        ELSE IF ~spawn_ok
             THEN [g |-> [g EXCEPT !.pc = "closed"],
                   r |-> Ret("raised", OSError,
                             <<"[Errno 2] No such file or directory">>, <<>>)]
             ELSE [g |-> [g EXCEPT !.pc = "reading",
                                   !.context = context,
                                   !.spawns = @ + 1,
                                   !.alive = TRUE,
                                   !.argv = build_command_args(p.cmd, p.subcommand,
                                                p.checkpoint_id, p.args, g.output_format),
                                   !.env = process_env(context),
                                   !.beh = beh],
                   r |-> ret]

\* the consumer's first __anext__ runs the generator up to its first await
StreamBegin ==
    /\ api = Api("execute_stream", "running")
    /\ strm.pc = "created"
    /\ \E spawn_ok \in BOOLEAN :
       \E beh \in (IF spawn_ok THEN StreamBehaviours ELSE {StreamBehaviour(<<>>, 0, <<>>)}) :
          LET b == stream_begin(strm, spawn_ok, beh) IN
          /\ strm' = b.g
          /\ ret' = b.r
          /\ api' = IF b.g.pc = "closed" THEN Api(api.op, "raised") ELSE api
    /\ UNCHANGED <<now, task, coll, shut, fn, fin, fout, _commands_cache, _cache_lock, caller, warmed, other_vars>>

\* readline returns a line: yield line.decode().rstrip()
StreamLine ==
    /\ strm.pc = "reading"
    /\ strm.pos < Len(strm.beh.lines)
    /\ strm' = [strm EXCEPT !.pc = "yielded",
                            !.pos = @ + 1,
                            !.out = Append(@, rstrip(strm.beh.lines[strm.pos + 1]))]
    /\ UNCHANGED <<now, api, ret, task, coll, shut, fn, fin, fout, _commands_cache, _cache_lock, caller, warmed, other_vars>>

\* readline returns b"": break, then await process.wait()
StreamEOF ==
    /\ strm.pc = "reading"
    /\ strm.pos = Len(strm.beh.lines)
    /\ strm' = [strm EXCEPT !.pc = "waiting"]
    /\ UNCHANGED <<now, api, ret, task, coll, shut, fn, fin, fout, _commands_cache, _cache_lock, caller, warmed, other_vars>>

\* a faulty variant: the final line is produced whatever the exit code
stream_failed_always(returncode) == TRUE

\* if process.returncode != 0
stream_failed(returncode) == returncode # 0

\* process.wait() returns: the final ERROR line, or the end of the iteration
StreamExit ==
    /\ strm.pc = "waiting"
    /\ IF stream_failed(strm.beh.exit_code)
       THEN /\ strm' = [strm EXCEPT
                           !.pc = "yielded_error",
                           !.alive = FALSE,
                           !.out = Append(@, <<"ERROR: ">> \o
                                      _get_error_message(strm.beh.exit_code, strm.beh.stderr))]
            /\ UNCHANGED <<api, ret>>
       ELSE /\ strm' = [strm EXCEPT !.pc = "closed", !.alive = FALSE]
            /\ api' = Api(api.op, "returned")
            /\ ret' = Ret("returned", NoExc, <<>>, <<>>)
    /\ UNCHANGED <<now, task, coll, shut, fn, fin, fout, _commands_cache, _cache_lock, caller, warmed, other_vars>>

\* the consumer asks for the next item: the generator resumes after its yield
StreamNext ==
    /\ api = Api("execute_stream", "running")
    /\ \/ /\ strm.pc = "yielded"
          /\ strm' = [strm EXCEPT !.pc = "reading"]
          /\ UNCHANGED <<api, ret>>
       \/ /\ strm.pc = "yielded_error"
          /\ strm' = [strm EXCEPT !.pc = "closed"]
          /\ api' = Api(api.op, "returned")
          /\ ret' = Ret("returned", NoExc, <<>>, <<>>)
    /\ UNCHANGED <<now, task, coll, shut, fn, fin, fout, _commands_cache, _cache_lock, caller, warmed, other_vars>>

\* the consuming task is cancelled while the generator awaits readline or
\* wait: CancelledError is raised at that await, inside the try block
StreamCancelAwaiting ==
    /\ api = Api("execute_stream", "running")
    /\ strm.pc \in {"reading", "waiting"}
    /\ strm' = [strm EXCEPT !.pc = "closed", !.kills = @ + 1, !.alive = FALSE]
    /\ api' = Api(api.op, "raised")
    /\ ret' = Ret("raised", CancelledError, <<>>, <<>>)
    /\ UNCHANGED <<now, task, coll, shut, fn, fin, fout, _commands_cache, _cache_lock, caller, warmed, other_vars>>

\* the consuming task is cancelled while the generator is suspended at a
\* yield: CancelledError is raised in the consumer, not in the generator
StreamCancelSuspended ==
    /\ api = Api("execute_stream", "running")
    /\ strm.pc \in {"yielded", "yielded_error"}
    /\ strm' = [strm EXCEPT !.pc = "abandoned"]
    /\ api' = Api(api.op, "raised")
    /\ ret' = Ret("raised", CancelledError, <<>>, <<>>)
    /\ UNCHANGED <<now, task, coll, shut, fn, fin, fout, _commands_cache, _cache_lock, caller, warmed, other_vars>>

----------------------------------------------------------------------------
(* Time *)

\* a step that takes no time is possible now
Urgent ==
    \/ \E i \in Tasks : CanBegin(i) \/ ExitDue(i) \/ TimeoutDue(i)
    \/ CanResume
    \/ CanCollect
    \/ CollectTimeoutDue
    \/ CanReturn

Tick ==
    /\ \E i \in Tasks : task[i].pc = "running"
    /\ ~Urgent
    /\ now' = now + 1
    /\ UNCHANGED <<api, ret, task, coll, shut, strm, fn, fin, fout, _commands_cache, _cache_lock, caller, warmed, other_vars>>

\* the worker pool under execute_batch and a concurrent shutdown
PoolNext ==
    \/ Call_execute_batch_max_concurrent
    \/ Call_shutdown_concurrently
    \/ ShutdownReturn
    \/ \E i \in Tasks : ExecuteBegin(i)
    \/ \E i \in Tasks : ProcessExit(i)
    \/ \E i \in Tasks : ProcessTimeout(i)
    \/ BatchCollect
    \/ BatchCollectTimeout
    \/ BatchReturn
    \/ Tick

Next ==
    \/ Call_execute
    \/ Call_execute_async
    \/ Call_execute_batch
    \/ Call_shutdown
    \/ \E i \in Tasks : ExecuteBegin(i)
    \/ \E i \in Tasks : ProcessExit(i)
    \/ \E i \in Tasks : ProcessTimeout(i)
    \/ AsyncResume
    \/ BatchCollect
    \/ BatchCollectTimeout
    \/ BatchReturn
    \/ Call_execute_stream
    \/ StreamBegin
    \/ StreamLine
    \/ StreamEOF
    \/ StreamExit
    \/ StreamNext
    \/ StreamCancelAwaiting
    \/ StreamCancelSuspended
    \/ Tick

----------------------------------------------------------------------------
(* get_available_commands *)

MaxThreads == 2      \* threads calling get_available_commands
MaxCalls == 3        \* calls they make altogether

Threads == 1..MaxThreads

\* bool(v) for a parsed output: None, '' and {} are false
TruthyParsed(v) == v.t # "None" /\ v.v # <<>>

\* return {}
EmptyDict == ParsedDict(<<>>)

Caller(pc, calls, force_refresh) ==
    [pc |-> pc,                 \* "idle", "blocked", "executing", "returned", "raised"
     calls |-> calls,           \* calls this thread has started so far
     force_refresh |-> force_refresh,
     executed |-> FALSE,        \* this call ran self.execute("list-commands")
     entry_cache |-> NoParsed,  \* _commands_cache when the call took the lock
     entry_warmed |-> FALSE,    \* warmed when the call took the lock
     exec |-> Task("start", <<"list-commands">>, NoContext, JSON),
                                \* its invocation of self.execute
     result |-> NoParsed,       \* what the call returned
     exc |-> NoExc]             \* what the call raised

\* the calls started so far by the threads 1..n
RECURSIVE CallsStarted(_)
CallsStarted(n) == IF n = 0 THEN 0 ELSE caller[n].calls + CallsStarted(n - 1)

CacheInit ==
    /\ _commands_cache = NoParsed
    /\ _cache_lock = 0
    /\ caller = [t \in Threads |-> Caller("idle", 0, FALSE)]
    /\ warmed = FALSE

\* what the CLI answers to list-commands
CacheBehaviours ==
    { Behaviour(TRUE, 1, 0, <<"{\"id\": 1}", "\n">>, <<>>),
      Behaviour(TRUE, 1, 0, <<"{\"id\": 2}", "\n">>, <<>>),
      Behaviour(TRUE, 1, 0, <<"{}">>, <<>>),
      Behaviour(TRUE, 1, 0, <<"\n">>, <<>>),
      Behaviour(TRUE, 1, 5, <<>>, <<"x not found", "\n">>),
      Behaviour(FALSE, 0, 0, <<>>, <<>>) }

\* a faulty variant: the cache is consulted even when a refresh is forced
use_cache_ignoring_force(cache, force_refresh) == TruthyParsed(cache)

\* if self._commands_cache and not force_refresh
use_cache(cache, force_refresh) == TruthyParsed(cache) /\ ~force_refresh

\* a thread calls get_available_commands(force_refresh) and reaches the with
\* statement
Call_get_available_commands(t) ==
    \E force_refresh \in BOOLEAN :
        /\ caller[t].pc \in {"idle", "returned", "raised"}
        /\ CallsStarted(MaxThreads) < MaxCalls
        /\ caller' = [caller EXCEPT
                         ![t] = Caller("blocked", caller[t].calls + 1, force_refresh)]
        /\ UNCHANGED <<_commands_cache, _cache_lock, warmed>>
        /\ UNCHANGED <<exec_vars, fn, fin, fout, other_vars>>

\* a faulty variant: the lock is released before list-commands is executed
CacheEnter_lock_released(t) ==
    /\ caller[t].pc = "blocked"
    /\ _cache_lock = 0
    /\ IF use_cache(_commands_cache, caller[t].force_refresh)
       THEN caller' = [caller EXCEPT ![t].pc = "returned",
                                     ![t].entry_cache = _commands_cache,
                                     ![t].entry_warmed = warmed,
                                     ![t].result = _commands_cache]
       ELSE caller' = [caller EXCEPT ![t].pc = "executing",
                                     ![t].entry_cache = _commands_cache,
                                     ![t].entry_warmed = warmed,
                                     ![t].executed = TRUE]
    /\ UNCHANGED <<_commands_cache, _cache_lock, warmed>>
    /\ UNCHANGED <<exec_vars, fn, fin, fout, other_vars>>

\* with self._cache_lock: the lock is taken; a cached value is returned (and
\* the lock released) at once, otherwise list-commands is executed
CacheEnter(t) ==
    /\ caller[t].pc = "blocked"
    /\ _cache_lock = 0
    /\ IF use_cache(_commands_cache, caller[t].force_refresh)
       THEN /\ caller' = [caller EXCEPT ![t].pc = "returned",
                                        ![t].entry_cache = _commands_cache,
                                        ![t].entry_warmed = warmed,
                                        ![t].result = _commands_cache]
            /\ UNCHANGED _cache_lock
       ELSE /\ caller' = [caller EXCEPT ![t].pc = "executing",
                                        ![t].entry_cache = _commands_cache,
                                        ![t].entry_warmed = warmed,
                                        ![t].executed = TRUE]
            /\ _cache_lock' = t
    /\ UNCHANGED <<_commands_cache, warmed>>
    /\ UNCHANGED <<exec_vars, fn, fin, fout, other_vars>>

\* self.execute("list-commands", output_format=OutputFormat.JSON) runs in the
\* calling thread, which holds the lock: up to the Popen call
CacheExecuteBegin(t) ==
    /\ caller[t].pc = "executing"
    /\ caller[t].exec.pc = "start"
    /\ \E spawn_ok \in BOOLEAN :
       \E beh \in (IF spawn_ok THEN CacheBehaviours ELSE {NoBehaviour}) :
          caller' = [caller EXCEPT
                        ![t].exec = execute_begin(caller[t].exec, spawn_ok, beh)]
    /\ UNCHANGED <<_commands_cache, _cache_lock, warmed>>
    /\ UNCHANGED <<exec_vars, fn, fin, fout, other_vars>>

\* communicate returns or times out
CacheExecuteEnd(t) ==
    /\ caller[t].pc = "executing"
    /\ caller[t].exec.pc = "running"
    /\ caller' = [caller EXCEPT
                     ![t].exec = IF exits_in_time(caller[t].exec)
                                 THEN execute_finish(caller[t].exec)
                                 ELSE execute_timeout(caller[t].exec)]
    /\ UNCHANGED <<_commands_cache, _cache_lock, warmed>>
    /\ UNCHANGED <<exec_vars, fn, fin, fout, other_vars>>

\* self.execute has returned or raised: the cache is written when the result
\* is a success with a parsed output; leaving the with block releases the lock
CacheStore(t) ==
    /\ caller[t].pc = "executing"
    /\ caller[t].exec.pc \in {"returned", "raised"}
    /\ IF caller[t].exec.pc = "raised"
       THEN /\ caller' = [caller EXCEPT ![t].pc = "raised",
                                        ![t].exc = caller[t].exec.exc]
            /\ UNCHANGED <<_commands_cache, warmed>>
       ELSE IF /\ caller[t].exec.result.success
               /\ TruthyParsed(caller[t].exec.result.parsed_output)
            THEN /\ _commands_cache' = caller[t].exec.result.parsed_output
                 /\ warmed' = TRUE
                 /\ caller' = [caller EXCEPT
                                  ![t].pc = "returned",
                                  ![t].result = caller[t].exec.result.parsed_output]
            ELSE /\ caller' = [caller EXCEPT ![t].pc = "returned",
                                             ![t].result = EmptyDict]
                 /\ UNCHANGED <<_commands_cache, warmed>>
    /\ _cache_lock' = 0
    /\ UNCHANGED <<exec_vars, fn, fin, fout, other_vars>>

CacheNext ==
    \/ \E t \in Threads : Call_get_available_commands(t)
    \/ \E t \in Threads : CacheEnter(t)
    \/ \E t \in Threads : CacheExecuteBegin(t)
    \/ \E t \in Threads : CacheExecuteEnd(t)
    \/ \E t \in Threads : CacheStore(t)

----------------------------------------------------------------------------
(* The harness that applies the pure functions to bounded inputs *)

ParseAlphabet == {" ", "\"", "api-cli", "library", "step-wait", "ls", "7", "x"}

RECURSIVE TextsUpTo(_, _)
TextsUpTo(A, n) ==
    IF n = 0 THEN {<<>>}
    ELSE LET shorter == TextsUpTo(A, n - 1) IN
         shorter \cup {Append(s, a) : s \in {t \in shorter : Len(t) = n - 1}, a \in A}

\* shell words as written on a command line: bare words, a quoted empty
\* string and a quoted string with a blank in it
WrittenWords ==
    { <<"library">>, <<"ls">>, <<"get">>, <<"7">>, <<"\"", "\"">>,
      <<"\"", "a", " ", "b", "\"">> }

RECURSIVE Join(_)
Join(words) ==
    IF words = <<>> THEN <<>>
    ELSE IF Len(words) = 1 THEN words[1]
    ELSE words[1] \o <<" ">> \o Join(Tail(words))

\* a command line: optional surrounding white space, optional api-cli prefix
Written(padded, prefixed, words) ==
    (IF padded THEN <<" ">> ELSE <<>>)
    \o (IF prefixed THEN <<"api-cli", " ">> ELSE <<>>)
    \o Join(words)
    \o (IF padded THEN <<"\n">> ELSE <<>>)

RECURSIVE WordListsUpTo(_)
WordListsUpTo(n) ==
    IF n = 0 THEN {<<>>}
    ELSE LET shorter == WordListsUpTo(n - 1) IN
         shorter \cup
         {Append(s, w) : s \in {t \in shorter : Len(t) = n - 1}, w \in WrittenWords}

CommandStrings ==
    TextsUpTo(ParseAlphabet, MaxAtoms)
    \cup { Written(padded, prefixed, words) :
             padded \in BOOLEAN, prefixed \in BOOLEAN,
             words \in WordListsUpTo(MaxTokens) }

\* the output formats a parsed command is built with
ParsedFormats == {JSON, RAW}

ValidateCommands == CHECKPOINT_COMMANDS \cup {<<"ls">>, <<"run-test">>, <<>>}
OptTokens == {None, <<>>, <<"7">>}
ValidateContexts ==
    {NoContext} \cup
    {CommandContext("r", sid, NoTimeout, EmptyEnv) : sid \in {None, <<>>, <<"12345">>}}

PureInit ==
    /\ fn = "none"
    /\ fin = <<>>
    /\ fout = <<>>

Call_parse_command ==
    /\ fn = "none"
    /\ \E s \in CommandStrings :
           /\ fn' = "parse_command"
           /\ fin' = [command |-> s]
           /\ fout' = parse_command(s)
           /\ UNCHANGED <<exec_vars, cache_vars, other_vars>>

Call_validate_command ==
    /\ fn = "none"
    /\ \E c \in ValidateCommands, sub \in {None, <<"get">>}, ck \in OptTokens,
          ctx \in ValidateContexts :
           /\ fn' = "validate_command"
           /\ fin' = [command |-> c, subcommand |-> sub, checkpoint_id |-> ck,
                      context |-> ctx]
           /\ fout' = [exc |-> validate_command(c, sub, ck, ctx)]
           /\ UNCHANGED <<exec_vars, cache_vars, other_vars>>

BuildCommands == {<<"list-projects">>, <<"step-navigate">>}
BuildSubcommands == {None, <<>>, <<"to">>}
BuildCheckpoints == {None, <<>>, <<"12345">>}
BuildArgs == {<<"--verbose">>, <<>>, <<"a", " ", "b">>}

Call_build_command_args ==
    /\ fn = "none"
    /\ \E c \in BuildCommands, sub \in BuildSubcommands, ck \in BuildCheckpoints,
          a \in SeqsUpTo(BuildArgs, MaxArgs), f \in OutputFormat :
           /\ fn' = "build_command_args"
           /\ fin' = [command |-> c, subcommand |-> sub, checkpoint_id |-> ck,
                      args |-> a, output_format |-> f]
           /\ fout' = [cmd_args |-> build_command_args(c, sub, ck, a, f),
                       args |-> build_command_args_leaves(a)]
           /\ UNCHANGED <<exec_vars, cache_vars, other_vars>>

ErrorExitCodes == (0..10) \cup {127, 42, 255, -9}
ErrorStderrs ==
    { <<>>, <<" ">>, <<"\n">>, <<"boom">>, <<" ", "boom", "\n">>,
      <<"Error:", " ", "Not", " ", "found">> }

Call_get_error_message ==
    /\ fn = "none"
    /\ \E c \in ErrorExitCodes, e \in ErrorStderrs :
           /\ fn' = "_get_error_message"
           /\ fin' = [exit_code |-> c, stderr |-> e]
           /\ fout' = [msg |-> _get_error_message(c, e)]
           /\ UNCHANGED <<exec_vars, cache_vars, other_vars>>

ParseOutputs ==
    { <<>>, <<" ">>, <<"\n">>, <<"{\"id\": 1}">>, <<"{\"id\": 1}", "\n">>,
      <<"id: 1">>, <<"id: 1", "\n">>, <<"{oops">>, <<"not json">>,
      <<" ", "plain", "\n">> }

Call_parse_output ==
    /\ fn = "none"
    /\ \E o \in ParseOutputs, f \in OutputFormat :
           /\ fn' = "_parse_output"
           /\ fin' = [output |-> o, format_type |-> f]
           /\ fout' = parse_output_call(o, f)
           /\ UNCHANGED <<exec_vars, cache_vars, other_vars>>

\* the first lines of execute: build_command_args is applied to what
\* parse_command returned for the command string
Call_build_parsed ==
    /\ fn = "parse_command"
    /\ \E f \in ParsedFormats :
           /\ fout.exc = NoExc
           /\ fn' = "parse_then_build"
           /\ fin' = [command |-> fin.command, output_format |-> f]
           /\ fout' = [cmd_args |-> build_command_args(fout.cmd, fout.subcommand,
                                                       fout.checkpoint_id, fout.args, f),
                       args |-> build_command_args_leaves(fout.args)]
           /\ UNCHANGED <<exec_vars, cache_vars, other_vars>>

PureNext ==
    \/ Call_parse_command
    \/ Call_build_parsed
    \/ Call_validate_command
    \/ Call_build_command_args
    \/ Call_get_error_message
    \/ Call_parse_output

----------------------------------------------------------------------------
(* get_executor: the module's singleton, asked for by several threads *)

MaxGetters == 3      \* threads calling get_executor

Getters == 1..MaxGetters

Getter(pc) ==
    [pc |-> pc,          \* "idle", "lock", "locked", "construct", "assign",
                         \* "return", "returned", "raised"
     locked |-> FALSE,   \* this call went through the with statement
     built |-> 0,        \* the instance this call has constructed, if any
     result |-> 0,       \* what the call returned
     exc |-> NoExc]      \* what the call raised

SingleInit ==
    /\ _executor = 0
    /\ _lock = 0
    /\ getter = [g \in Getters |-> Getter("idle")]
    /\ constructed = {}

\* if _executor is None: the test made without the lock
GetFirstTest(g) ==
    /\ getter[g].pc = "idle"
    /\ getter' = [getter EXCEPT ![g].pc = IF _executor = 0 THEN "lock" ELSE "return"]
    /\ UNCHANGED <<_executor, _lock, constructed>>
    /\ UNCHANGED <<exec_vars, down_vars, pure_vars, route_vars, rate_vars>>

\* with _lock: the thread waits until the lock is free and takes it
GetAcquire(g) ==
    /\ getter[g].pc = "lock"
    /\ _lock = 0
    /\ _lock' = g
    /\ getter' = [getter EXCEPT ![g].pc = "locked", ![g].locked = TRUE]
    /\ UNCHANGED <<_executor, constructed>>
    /\ UNCHANGED <<exec_vars, down_vars, pure_vars, route_vars, rate_vars>>

\* a faulty variant: the test is not repeated under the lock
GetSecondTest_skipped(g) ==
    /\ getter[g].pc = "locked"
    /\ getter' = [getter EXCEPT ![g].pc = "construct"]
    /\ UNCHANGED <<_executor, _lock, constructed>>
    /\ UNCHANGED <<exec_vars, down_vars, pure_vars, route_vars, rate_vars>>

\* if _executor is None: the test repeated under the lock; when it fails the
\* with block is left and the lock released
GetSecondTest(g) ==
    /\ getter[g].pc = "locked"
    /\ IF _executor = 0
       THEN /\ getter' = [getter EXCEPT ![g].pc = "construct"]
            /\ UNCHANGED _lock
       ELSE /\ getter' = [getter EXCEPT ![g].pc = "return"]
            /\ _lock' = 0
    /\ UNCHANGED <<_executor, constructed>>
    /\ UNCHANGED <<exec_vars, down_vars, pure_vars, route_vars, rate_vars>>

\* CLIExecutor(): __init__ builds a new instance, or _validate_cli_binary
\* raises CommandValidationError, which leaves the with block and the call
GetConstruct(g) ==
    /\ getter[g].pc = "construct"
    /\ \E binary_ok \in BOOLEAN :
          IF binary_ok
          THEN /\ constructed' = constructed \cup {Cardinality(constructed) + 1}
               /\ getter' = [getter EXCEPT ![g].pc = "assign",
                                           ![g].built = Cardinality(constructed) + 1]
               /\ UNCHANGED _lock
          ELSE /\ getter' = [getter EXCEPT ![g].pc = "raised",
                                           ![g].exc = CommandValidationError]
               /\ _lock' = 0
               /\ UNCHANGED constructed
    /\ UNCHANGED _executor
    /\ UNCHANGED <<exec_vars, down_vars, pure_vars, route_vars, rate_vars>>

\* _executor = <the new instance>; the with block ends and the lock is released
GetAssign(g) ==
    /\ getter[g].pc = "assign"
    /\ _executor' = getter[g].built
    /\ _lock' = 0
    /\ getter' = [getter EXCEPT ![g].pc = "return"]
    /\ UNCHANGED constructed
    /\ UNCHANGED <<exec_vars, down_vars, pure_vars, route_vars, rate_vars>>

\* return _executor
GetReturn(g) ==
    /\ getter[g].pc = "return"
    /\ getter' = [getter EXCEPT ![g].pc = "returned", ![g].result = _executor]
    /\ UNCHANGED <<_executor, _lock, constructed>>
    /\ UNCHANGED <<exec_vars, down_vars, pure_vars, route_vars, rate_vars>>

SingleNext ==
    \/ \E g \in Getters : GetFirstTest(g)
    \/ \E g \in Getters : GetAcquire(g)
    \/ \E g \in Getters : GetSecondTest(g)
    \/ \E g \in Getters : GetConstruct(g)
    \/ \E g \in Getters : GetAssign(g)
    \/ \E g \in Getters : GetReturn(g)

----------------------------------------------------------------------------
(* POST /batch (routes/commands.py): the synchronous loop of                *)
(* execute_batch_commands                                                    *)

MaxCommands == 3     \* longest command list of a batch request

CLI_TIMEOUT == 2     \* settings.CLI_TIMEOUT, in ticks

\* an element of request.commands; attrs tells whether the object has the
\* attributes subcommand and args the handler reads (the declared command
\* models have neither)
RouteCommand(command, subcommand, checkpoint_id, args, attrs) ==
    [command |-> command, subcommand |-> subcommand,
     checkpoint_id |-> checkpoint_id, args |-> args, attrs |-> attrs]

RouteCommands ==
    { RouteCommand(<<"list-commands">>, None, None, <<>>, TRUE),
      RouteCommand(<<"step-navigate">>, <<"to">>, <<"12345">>, << <<"https://x">> >>, TRUE),
      RouteCommand(<<"step-navigate">>, <<"to">>, None, <<>>, TRUE),
      RouteCommand(<<"navigate">>, None, <<"12345">>, <<>>, FALSE) }

\* what the CLI does for a command of the batch
RouteBehaviours ==
    { Behaviour(TRUE, 1, 0, <<"{\"id\": 1}", "\n">>, <<>>),
      Behaviour(TRUE, 1, 0, <<"not json">>, <<>>),
      Behaviour(TRUE, 1, 5, <<>>, <<"x not found", "\n">>),
      Behaviour(FALSE, 0, 0, <<>>, <<>>) }

\* str.split(): the words between runs of white space
RECURSIVE split(_)
split(text) ==
    IF text = <<>> THEN <<>>
    ELSE IF Head(text) \in WhiteSpace THEN split(Tail(text))
    ELSE LET spaces == {i \in 1..Len(text) : text[i] \in WhiteSpace}
             n == IF spaces = {} THEN Len(text) + 1
                  ELSE CHOOSE i \in spaces : \A j \in spaces : i <= j
         IN  <<SubSeq(text, 1, n - 1)>> \o split(SubSeq(text, n, Len(text)))

\* cli_args = cmd.command.split() + [cmd.subcommand] + cmd.args;
\* command_str = " ".join(cli_args)
command_str(cmd) ==
    Join(split(cmd.command)
         \o (IF Truthy(cmd.subcommand) THEN <<cmd.subcommand>> ELSE <<>>)
         \o cmd.args)

\* CommandContext(request_id=..., session_id=cmd.checkpoint_id,
\*                timeout=settings.CLI_TIMEOUT)
route_context(cmd) == CommandContext("unknown", cmd.checkpoint_id, CLI_TIMEOUT, EmptyEnv)

Route(pc, commands, stop_on_error) ==
    [pc |-> pc,            \* "idle", "forbidden", "loop", "executing", "done", "returned"
     commands |-> commands, stop_on_error |-> stop_on_error,
     idx |-> 1,            \* enumerate's idx, counted from 1
     exec |-> Task("start", <<>>, NoContext, JSON),
                           \* the invocation of execute awaited through execute_async
     executed |-> <<>>,    \* history: the idx of the commands handed to execute_async
     results |-> <<>>, successful |-> 0, failed |-> 0, skipped |-> 0,
     response |-> [total_commands |-> 0, successful |-> 0, failed |-> 0,
                   skipped |-> 0, results |-> <<>>]]

RouteInit == route = Route("idle", <<>>, FALSE)

\* the request arrives; the permission loop raises 403 or lets it through
Call_execute_batch_commands ==
    /\ route.pc = "idle"
    /\ \E cmds \in SeqsUpTo(RouteCommands, MaxCommands), stop \in BOOLEAN,
          permitted \in BOOLEAN :
           route' = Route(IF permitted \/ cmds = <<>> THEN "loop" ELSE "forbidden",
                          cmds, stop)
    /\ UNCHANGED <<exec_vars, down_vars, pure_vars, single_vars, rate_vars>>

\* a faulty variant: the failing command is counted among the skipped ones
skipped_after_inclusive(commands, idx) == Len(commands) - idx + 1

\* skipped = len(request.commands) - idx - 1, with idx counted from 0
skipped_after(commands, idx) == Len(commands) - idx

\* the except Exception branch: an error detail is appended, failed is
\* incremented and the loop is left when stop_on_error is set
route_failed(r) ==
    [r EXCEPT !.results = Append(@, [kind |-> "error", idx |-> r.idx]),
              !.failed = @ + 1,
              !.skipped = IF r.stop_on_error THEN skipped_after(r.commands, r.idx) ELSE @,
              !.pc = IF r.stop_on_error THEN "done" ELSE "loop",
              !.idx = IF r.stop_on_error THEN @ ELSE @ + 1]

\* the end of the try block: a step result is appended
route_succeeded(r) ==
    [r EXCEPT !.results = Append(@, [kind |-> "step", idx |-> r.idx]),
              !.successful = @ + 1,
              !.pc = "loop",
              !.idx = @ + 1]

\* the next iteration, up to the await: reading cmd.subcommand of an object
\* without that attribute raises AttributeError inside the try block
RouteIterate ==
    /\ route.pc = "loop"
    /\ route.idx <= Len(route.commands)
    /\ LET cmd == route.commands[route.idx] IN
       IF ~cmd.attrs
       THEN route' = route_failed(route)
       ELSE route' = [route EXCEPT
                         !.pc = "executing",
                         !.executed = Append(@, route.idx),
                         !.exec = Task("start", command_str(cmd), route_context(cmd), JSON)]
    /\ UNCHANGED <<exec_vars, down_vars, pure_vars, single_vars, rate_vars>>

\* execute in a worker of the pool, up to the Popen call
RouteExecuteBegin ==
    /\ route.pc = "executing"
    /\ route.exec.pc = "start"
    /\ \E spawn_ok \in BOOLEAN :
       \E beh \in (IF spawn_ok THEN RouteBehaviours ELSE {NoBehaviour}) :
          route' = [route EXCEPT !.exec = execute_begin(route.exec, spawn_ok, beh)]
    /\ UNCHANGED <<exec_vars, down_vars, pure_vars, single_vars, rate_vars>>

\* communicate returns or times out
RouteExecuteEnd ==
    /\ route.pc = "executing"
    /\ route.exec.pc = "running"
    /\ route' = [route EXCEPT !.exec = IF exits_in_time(route.exec)
                                       THEN execute_finish(route.exec)
                                       ELSE execute_timeout(route.exec)]
    /\ UNCHANGED <<exec_vars, down_vars, pure_vars, single_vars, rate_vars>>

\* the rest of the try block runs to its end: execute_async returned a
\* successful result and (result.parsed_output or {}).get(...) works, which
\* it does not for a str
step_succeeds(t) ==
    /\ t.pc = "returned"
    /\ t.result.success
    /\ ~(TruthyParsed(t.result.parsed_output) /\ t.result.parsed_output.t = "str")

\* the await ends: with a result or with the exception execute raised
RouteResume ==
    /\ route.pc = "executing"
    /\ route.exec.pc \in {"returned", "raised"}
    /\ route' = IF step_succeeds(route.exec) THEN route_succeeded(route)
                ELSE route_failed(route)
    /\ UNCHANGED <<exec_vars, down_vars, pure_vars, single_vars, rate_vars>>

\* after the loop: the BatchExecutionResult of the response
RouteReturn ==
    /\ \/ route.pc = "done"
       \/ route.pc = "loop" /\ route.idx > Len(route.commands)
    /\ route' = [route EXCEPT
                    !.pc = "returned",
                    !.response = [total_commands |-> Len(route.commands),
                                  successful |-> route.successful,
                                  failed |-> route.failed,
                                  skipped |-> route.skipped,
                                  results |-> route.results]]
    /\ UNCHANGED <<exec_vars, down_vars, pure_vars, single_vars, rate_vars>>

RouteNext ==
    \/ Call_execute_batch_commands
    \/ RouteIterate
    \/ RouteExecuteBegin
    \/ RouteExecuteEnd
    \/ RouteResume
    \/ RouteReturn

----------------------------------------------------------------------------
(* Rate limiting (middleware/rate_limit.py): RateLimiter behind the          *)
(* middleware, which keeps one limiter, and behind the rate_limit            *)
(* dependency, which builds a limiter per request                            *)

MaxRequests == 4     \* HTTP requests that are rate limited
MaxTime == 3         \* the last second of the clock

Requests == 1..MaxRequests

Identifiers == {"user:1"}

\* the limiter of RateLimitMiddleware, the limiter made by rate_limit_check
Vias == {"middleware", "dependency"}

\* burst_multiplier is a float: it is written in tenths
RateLimitConfig(requests, window_seconds, burst_tenths) ==
    [requests |-> requests, window_seconds |-> window_seconds,
     burst_tenths |-> burst_tenths]

\* the configuration of the endpoint: an entry of DEFAULT_RATE_LIMITS with a
\* burst for the middleware, rate_limit(requests, window_seconds) for the
\* dependency
config_of(via) ==
    IF via = "middleware" THEN RateLimitConfig(1, 2, 25) ELSE RateLimitConfig(2, 2, 10)

\* allowed_requests = int(config.requests * config.burst_multiplier)
allowed_requests(config) == (config.requests * config.burst_tenths) \div 10

\* an entry (count, first_request_time) of _local_cache, or no entry
Entry(count, first) == [present |-> TRUE, count |-> count, first |-> first]
NoEntry == [present |-> FALSE, count |-> 0, first |-> 0]

\* the _local_cache of a new RateLimiter
EmptyLocalCache == [k \in Identifiers |-> NoEntry]

\* _check_local_limit: expired entries are deleted, the entry of the key is
\* read (or started at the current time), the limit is tested and the count
\* incremented
_check_local_limit(cache, key, config, current_time) ==
    LET cleaned == [k \in Identifiers |->
                       IF /\ cache[k].present
                          /\ current_time - cache[k].first > config.window_seconds
                       THEN NoEntry ELSE cache[k]]
        got == IF cleaned[key].present THEN cleaned[key] ELSE Entry(0, current_time)
        e == IF current_time - got.first > config.window_seconds
             THEN Entry(0, current_time) ELSE got
    IN  IF e.count >= allowed_requests(config)
        THEN [is_allowed |-> FALSE, cache |-> cleaned]
        ELSE [is_allowed |-> TRUE,
              cache |-> [cleaned EXCEPT ![key] = Entry(e.count + 1, e.first)]]

Request(pc, via, identifier) ==
    [pc |-> pc,           \* "new", "keys", "incr", "done"
     via |-> via, identifier |-> identifier,
     current_time |-> 0,  \* time.time() in check_rate_limit
     request_count |-> 0] \* the sum read from Redis

\* a request that was answered: what is kept of it is its entry in admitted
Done == Request("done", "middleware", "user:1")

\* where a request is decided
Paths == {"redis", "local"}

\* a request is let through: it is counted under its limiter, the path that
\* decided it, its identifier and the second of its current_time
admit(via, path, identifier, current_time) ==
    [admitted EXCEPT ![via][path][identifier][current_time] = @ + 1]

RateInit ==
    /\ time = 0
    /\ redis_up = TRUE
    /\ redis = [k \in Identifiers |-> [sec \in 0..MaxTime |-> 0]]
    /\ _connected = FALSE
    /\ _local_cache = EmptyLocalCache
    /\ request = [r \in Requests |-> Request("new", "middleware", "user:1")]
    /\ admitted = [via \in Vias |-> [path \in Paths |-> [k \in Identifiers |->
                       [sec \in 0..MaxTime |-> 0]]]]

\* the request is decided by _check_local_limit, on the cache of its limiter:
\* the middleware's limiter keeps its cache, the dependency's is new
LocalDecision(r, q) ==
    LET res == _check_local_limit(IF q.via = "middleware" THEN _local_cache
                                  ELSE EmptyLocalCache,
                                  q.identifier, config_of(q.via), q.current_time)
    IN  /\ request' = [request EXCEPT ![r] = Done]
        /\ _local_cache' = IF q.via = "middleware" THEN res.cache ELSE _local_cache
        /\ admitted' = IF res.is_allowed
                       THEN admit(q.via, "local", q.identifier, q.current_time)
                       ELSE admitted

\* a request reaches the limiter: connect() (which keeps a connection made
\* earlier and otherwise succeeds when Redis answers), then check_rate_limit
\* reads the clock and _check_redis_limit goes to the local cache when the
\* limiter is not connected
CheckRateLimit(r) ==
    /\ request[r].pc = "new"
    /\ \A p \in Requests : p < r => request[p].pc # "new"
    /\ \E via \in Vias, identifier \in Identifiers :
          LET connected == IF via = "middleware" THEN _connected \/ redis_up ELSE redis_up
              q == [Request("keys", via, identifier) EXCEPT !.current_time = time]
          IN  /\ _connected' = IF via = "middleware" THEN connected ELSE _connected
              /\ IF connected
                 THEN /\ request' = [request EXCEPT ![r] = q]
                      /\ UNCHANGED <<_local_cache, admitted>>
                 ELSE LocalDecision(r, q)
    /\ UNCHANGED <<time, redis_up, redis>>
    /\ UNCHANGED <<exec_vars, down_vars, pure_vars, single_vars, route_vars>>

\* the requests counted in Redis for the identifier: the keys whose second
\* is not before window_start = int(current_time - window_seconds)
RECURSIVE redis_count(_, _)
redis_count(counters, from) ==
    IF from > MaxTime THEN 0
    ELSE (IF from >= 0 THEN counters[from] ELSE 0) + redis_count(counters, from + 1)

\* keys() and get(): the count of the window is read and tested; a Redis
\* error sends the request to the local cache
RedisCount(r) ==
    /\ request[r].pc = "keys"
    /\ LET q == request[r]
           config == config_of(q.via)
           request_count == redis_count(redis[q.identifier],
                                        q.current_time - config.window_seconds)
       IN  IF ~redis_up
           THEN LocalDecision(r, q)
           ELSE /\ request' = [request EXCEPT ![r] =
                                  IF request_count >= allowed_requests(config)
                                  THEN Done
                                  ELSE [q EXCEPT !.request_count = request_count,
                                                 !.pc = "incr"]]
                /\ UNCHANGED <<_local_cache, admitted>>
    /\ UNCHANGED <<time, redis_up, redis, _connected>>
    /\ UNCHANGED <<exec_vars, down_vars, pure_vars, single_vars, route_vars>>

\* pipe.incr(current_key), pipe.expire, pipe.execute: the counter of the
\* second int(current_time) is incremented and the request allowed
RedisIncr(r) ==
    /\ request[r].pc = "incr"
    /\ redis_up
    /\ LET q == request[r] IN
           /\ redis' = [redis EXCEPT ![q.identifier][q.current_time] = @ + 1]
           /\ request' = [request EXCEPT ![r] = Done]
           /\ admitted' = admit(q.via, "redis", q.identifier, q.current_time)
    /\ UNCHANGED <<time, redis_up, _connected, _local_cache>>
    /\ UNCHANGED <<exec_vars, down_vars, pure_vars, single_vars, route_vars>>

\* the pipeline raises because Redis is gone: the except branch sends the
\* request to the local cache
RedisIncrFails(r) ==
    /\ request[r].pc = "incr"
    /\ ~redis_up
    /\ LocalDecision(r, request[r])
    /\ UNCHANGED <<time, redis_up, redis, _connected>>
    /\ UNCHANGED <<exec_vars, down_vars, pure_vars, single_vars, route_vars>>

\* the Redis server stops answering
RedisOutage ==
    /\ redis_up
    /\ redis_up' = FALSE
    /\ UNCHANGED <<time, redis, _connected, _local_cache, request, admitted>>
    /\ UNCHANGED <<exec_vars, down_vars, pure_vars, single_vars, route_vars>>

\* a second passes; a request is decided within the second it arrived in
RateTick ==
    /\ time < MaxTime
    /\ \A r \in Requests : request[r].pc \in {"new", "done"}
    /\ time' = time + 1
    /\ UNCHANGED <<redis_up, redis, _connected, _local_cache, request, admitted>>
    /\ UNCHANGED <<exec_vars, down_vars, pure_vars, single_vars, route_vars>>

RateNext ==
    \/ \E r \in Requests : CheckRateLimit(r)
    \/ \E r \in Requests : RedisCount(r)
    \/ \E r \in Requests : RedisIncr(r)
    \/ \E r \in Requests : RedisIncrFails(r)
    \/ RedisOutage
    \/ RateTick

----------------------------------------------------------------------------
(* Specifications *)

Init == ExecInit /\ PureInit /\ CacheInit /\ SingleInit /\ RouteInit /\ RateInit

\* the executor serving one client call
Spec == Init /\ [][Next]_vars

\* the pure functions applied to bounded inputs
SpecPure == Init /\ [][PureNext]_vars

\* threads calling get_available_commands on one executor
SpecCache == Init /\ [][CacheNext]_vars

\* execute_batch with max_concurrent, and shutdown called meanwhile
SpecPool == Init /\ [][PoolNext]_vars

\* the synchronous path of POST /batch
SpecRoute == Init /\ [][RouteNext]_vars

\* requests passing the rate limiter
SpecRate == Init /\ [][RateNext]_vars

\* concurrent calls of get_executor
SpecSingle == Init /\ [][SingleNext]_vars

----------------------------------------------------------------------------
(* Properties *)

\* r is what the collection loop of execute_batch makes of the future of t
ResultOfTask(r, t) ==
    \/ t.pc = "returned" /\ r = t.result
    \/ t.pc = "raised" /\ r = batch_error_result(t)
    \/ r = batch_timeout_result(t)

\* C1: execute_batch called with N command strings returns a list of exactly
\* N CommandResults and the i-th result is that of the i-th command, whatever
\* the order in which the pool completes them, also when items time out or
\* raise.
C1_BatchResultsInInputOrder ==
    api = Api("execute_batch", "returned") =>
        /\ Len(ret.results) = Len(task)
        /\ \A i \in Tasks : ResultOfTask(ret.results[i], task[i])

\* a returned batch of three in which a later item completed before an
\* earlier one, one collection wait expired and one execute raised
C1_Witness ==
    /\ api = Api("execute_batch", "returned")
    /\ Len(task) = 3
    /\ \E i, j \in Tasks :
          i < j /\ Finished(i) /\ Finished(j) /\ task[j].end_time < task[i].end_time
    /\ \E i \in Tasks : ret.results[i] = batch_timeout_result(task[i])
    /\ \E i \in Tasks : task[i].pc = "raised"

\* the timeout of an invocation as documented: context.timeout, or
\* default_timeout when the context gives none
ClaimedTimeout(context) ==
    IF context = NoContext \/ context.timeout = NoTimeout
    THEN default_timeout
    ELSE context.timeout

\* the subprocess of t was started and exits by itself within the timeout
ExitsWithinTimeout(t) ==
    /\ t.spawns > 0
    /\ t.proc.beh.exits
    /\ t.proc.beh.dur <= ClaimedTimeout(t.context)

\* the subprocess of t was started and does not finish within the timeout
Overruns(t) == t.spawns > 0 /\ ~ExitsWithinTimeout(t)

SyncDone == api.op = "execute" /\ api.pc # "running"

\* C2: when the subprocess started by execute does not finish within the
\* timeout (context.timeout, or default_timeout when the context gives none),
\* the process is killed exactly once and execute raises CommandTimeoutError
\* to its caller; it never returns a CommandResult for that call.
C2_TimeoutKillsOnceAndRaises ==
    /\ \A i \in Tasks :
          Overruns(task[i]) =>
             /\ task[i].pc \in {"running", "raised"}
             /\ task[i].result = NoResult
             /\ task[i].pc = "running" =>
                   /\ task[i].kills = 0
                   /\ now <= task[i].proc.spawned_at + ClaimedTimeout(task[i].context)
             /\ task[i].pc = "raised" =>
                   /\ task[i].kills = 1
                   /\ task[i].exc = CommandTimeoutError
                   /\ task[i].end_time =
                         task[i].proc.spawned_at + ClaimedTimeout(task[i].context)
    /\ SyncDone /\ Overruns(task[1]) =>
          /\ api.pc = "raised"
          /\ ret.kind = "raised"
          /\ ret.exc = CommandTimeoutError
          /\ ret.results = <<>>

\* a synchronous execute with context.timeout = 1 whose process would have
\* exited after 2 ticks: killed once, CommandTimeoutError raised
C2_Witness ==
    /\ api = Api("execute", "raised")
    /\ task[1].context.timeout = 1
    /\ task[1].proc.beh.exits
    /\ task[1].proc.beh.dur = 2
    /\ task[1].kills = 1
    /\ ret.exc = CommandTimeoutError

\* C3: when the subprocess exits within the timeout with a non-zero exit code
\* (the CLI's own timeout code 8 included), execute returns a CommandResult
\* with success false and that exit code; it raises neither
\* CommandExecutionError nor CommandTimeoutError.
C3_NonZeroExitIsAResult ==
    /\ \A i \in Tasks :
          ExitsWithinTimeout(task[i]) /\ task[i].proc.beh.exit_code # 0 =>
             /\ task[i].pc \in {"running", "returned"}
             /\ task[i].kills = 0
             /\ task[i].exc = NoExc
             /\ task[i].pc = "running" =>
                   now <= task[i].proc.spawned_at + task[i].proc.beh.dur
             /\ task[i].pc = "returned" =>
                   /\ task[i].result.success = FALSE
                   /\ task[i].result.exit_code = task[i].proc.beh.exit_code
    /\ SyncDone /\ ExitsWithinTimeout(task[1]) /\ task[1].proc.beh.exit_code # 0 =>
          /\ ret.kind = "returned"
          /\ ret.exc = NoExc
          /\ ret.results = <<task[1].result>>

\* a synchronous execute whose process exited in time with the CLI's own
\* timeout code 8
C3_Witness ==
    /\ api = Api("execute", "returned")
    /\ task[1].spawns = 1
    /\ task[1].proc.beh.exit_code = 8
    /\ ret.results[1].exit_code = 8
    /\ ret.results[1].success = FALSE

\* the message of the exception that ends t before any process was started
MessageOfFailure(t) ==
    LET p == parse_command(t.command) IN
    IF p.exc # NoExc THEN p.msg
    ELSE IF validate_command(p.cmd, p.subcommand, p.checkpoint_id,
                             default_context(t.context, "sync")) # NoExc
         THEN validate_message(p.cmd)
         ELSE <<"[Errno 2] No such file or directory">>

\* C4: an exception other than a timeout that arises inside execute (a spawn
\* failure, an OS error) does not propagate: execute returns a CommandResult
\* with success false, exit_code -1, empty stdout and error equal to the
\* exception message.
C4_InternalExceptionIsAResult ==
    /\ \A i \in Tasks :
          /\ task[i].pc = "raised" => task[i].exc = CommandTimeoutError
          /\ Finished(i) /\ task[i].spawns = 0 =>
                /\ task[i].pc = "returned"
                /\ task[i].result.success = FALSE
                /\ task[i].result.exit_code = -1
                /\ task[i].result.stdout = <<>>
                /\ task[i].result.error = MessageOfFailure(task[i])
    /\ SyncDone /\ task[1].spawns = 0 =>
          /\ ret.kind = "returned"
          /\ ret.results = <<task[1].result>>

\* a synchronous execute of a valid command whose Popen raised OSError
C4_Witness ==
    /\ api = Api("execute", "returned")
    /\ task[1].command = c_navigate
    /\ task[1].spawns = 0
    /\ ret.results[1].exit_code = -1
    /\ ret.results[1].error = <<"[Errno 2] No such file or directory">>

Range(f) == {f[i] : i \in 1..Len(f)}

\* every CommandResult execute or execute_batch has produced so far
AllResults ==
    {task[i].result : i \in {j \in Tasks : task[j].pc = "returned"}}
    \cup Range(coll.results) \cup Range(ret.results)

\* C5: every CommandResult produced by execute or execute_batch (real
\* results, internal-exception results with exit_code -1, the synthetic batch
\* timeout and error results) satisfies success == (exit_code == 0).
C5_SuccessIffExitCodeZero ==
    \A r \in AllResults : r.success = (r.exit_code = 0)

\* a returned batch holding a real success, a synthetic timeout result and an
\* internal-exception result
C5_Witness ==
    /\ api = Api("execute_batch", "returned")
    /\ \E r \in Range(ret.results) : r.success /\ r.exit_code = 0
    /\ \E r \in Range(ret.results) : r.exit_code = 8 /\ r.error = <<"Timeout">>
    /\ \E r \in Range(ret.results) : r.exit_code = -1

\* C6: every CommandResult produced by execute or execute_batch has error set
\* (not None) if and only if success is false.
C6_ErrorIffNotSuccess ==
    \A r \in AllResults : (r.error # None) = (~r.success)

\* a returned batch holding a success without error, a failed CLI run with
\* its message and a synthetic timeout result
C6_Witness ==
    /\ api = Api("execute_batch", "returned")
    /\ \E r \in Range(ret.results) : r.success /\ r.error = None
    /\ \E r \in Range(ret.results) :
          r.exit_code = 5 /\ r.error = <<"Resource not found", ": ", "x not found">>
    /\ \E r \in Range(ret.results) : r.exit_code = 8 /\ r.error = <<"Timeout">>

\* the command string fails parse_command or validate_command: it is empty,
\* malformed, or a checkpoint command other than library without checkpoint
\* id and without session id
FailsValidation(command, context, rid) ==
    LET p == parse_command(command) IN
    \/ p.exc # NoExc
    \/ validate_command(p.cmd, p.subcommand, p.checkpoint_id,
                        default_context(context, rid)) # NoExc

C8_SpawnOnlyAfterValidationAtMostOnce ==
    /\ \A i \in Tasks :
          /\ task[i].spawns <= 1
          /\ FailsValidation(task[i].command, task[i].context, "sync") =>
                task[i].spawns = 0
    /\ strm.spawns <= 1
    /\ strm.pc # "none" /\ FailsValidation(strm.command, strm.context, "stream") =>
          strm.spawns = 0

\* a batch in which one command failed validation without a process while
\* another command has its one process
C8_Witness ==
    /\ api.op = "execute_batch"
    /\ \E i, j \in Tasks :
          /\ task[i].command = c_click /\ task[i].context = NoContext
          /\ Finished(i) /\ task[i].spawns = 0
          /\ task[j].command = c_list /\ task[j].spawns = 1

\* C9: for every command in CHECKPOINT_COMMANDS validate_command raises
\* CommandValidationError if and only if no explicit checkpoint id is given,
\* no context with a session id is supplied and the command is not library;
\* for every other command it never raises.  (An id is given when it is a
\* non-empty string.)
C9_ValidateRaisesIff ==
    fn = "validate_command" =>
        /\ fout.exc \in {NoExc, CommandValidationError}
        /\ (fout.exc = CommandValidationError) <=>
              /\ fin.command \in CHECKPOINT_COMMANDS
              /\ fin.checkpoint_id \in {None, <<>>}
              /\ \/ fin.context = NoContext
                 \/ fin.context.session_id \in {None, <<>>}
              /\ fin.command # <<"library">>

\* step-wait without checkpoint id but with a session id in the context passes
C9_Witness ==
    /\ fn = "validate_command"
    /\ fin.command = <<"step-wait">>
    /\ fin.checkpoint_id = None
    /\ fin.context # NoContext
    /\ fin.context.session_id = <<"12345">>
    /\ fout.exc = NoExc

\* the words of a command string: trimmed, the api-cli prefix removed, split
WordsOf(command) ==
    LET s == strip(command)
        body == IF has_cli_prefix(s) THEN SubSeq(s, 3, Len(s)) ELSE s
    IN  shlex_split(body)

C11_BuildCommandArgsShape ==
    fn = "build_command_args" =>
        LET head == << <<"/usr/local/bin/api-cli">>, fin.command >>
            sub == IF fin.subcommand \in {None, <<>>} THEN <<>>
                   ELSE <<fin.subcommand>>
            ck == IF fin.checkpoint_id \in {None, <<>>} THEN <<>>
                  ELSE <<fin.checkpoint_id>>
            fmt == IF fin.output_format = "raw" THEN <<>>
                   ELSE << <<"--output">>, <<fin.output_format>> >>
        IN  /\ fout.cmd_args = head \o sub \o ck \o fin.args \o fmt
            /\ fout.args = fin.args

\* step-navigate to 12345 with two arguments and format RAW: no output pair
C11_Witness ==
    /\ fn = "build_command_args"
    /\ fin.output_format = RAW
    /\ fin.subcommand = <<"to">>
    /\ fin.checkpoint_id = <<"12345">>
    /\ Len(fin.args) = 2
    /\ fout.cmd_args = << <<"/usr/local/bin/api-cli">>, <<"step-navigate">>, <<"to">>,
                          <<"12345">>, <<"--verbose">>, <<"a", " ", "b">> >>

\* C12: _get_error_message(exit_code, stderr) returns the EXIT_CODES entry for
\* exit_code (codes 0-9 and 127), or 'Unknown error (code: <exit_code>)' for
\* any other code, and appends ': <trimmed stderr>' exactly when stderr is
\* non-empty after trimming.
C12_ErrorMessageShape ==
    fn = "_get_error_message" =>
        LET base == IF fin.exit_code \in (0..9) \cup {127}
                    THEN EXIT_CODES[fin.exit_code]
                    ELSE <<"Unknown error (code: ", ToString(fin.exit_code), ")">>
            trimmed == strip(fin.stderr)
        IN  /\ trimmed # <<>> => fout.msg = base \o <<": ">> \o trimmed
            /\ trimmed = <<>> => fout.msg = base

\* an unlisted exit code with a stderr that has white space around it
C12_Witness ==
    /\ fn = "_get_error_message"
    /\ fin.exit_code = 42
    /\ fin.stderr = <<" ", "boom", "\n">>
    /\ fout.msg = <<"Unknown error (code: ", "42", ")", ": ", "boom">>

Running == {i \in Tasks : task[i].pc = "running"}

FullStream(g) ==
    [i \in 1..Len(g.beh.lines) |-> rstrip(g.beh.lines[i])]
    \o (IF g.beh.exit_code # 0
        THEN << <<"ERROR: ">> \o _get_error_message(g.beh.exit_code, g.beh.stderr) >>
        ELSE <<>>)

\* C15: execute_stream yields the stdout lines of the process in the order
\* the process wrote them; after end-of-file it waits for the exit of the
\* process and then yields exactly one more line 'ERROR: <message>' if the
\* exit code is non-zero, and no more line if it is zero.
C15_StreamYieldsLinesThenError ==
    strm.spawns = 1 =>
        /\ Len(strm.out) <= Len(FullStream(strm))
        /\ strm.out = SubSeq(FullStream(strm), 1, Len(strm.out))
        /\ strm.pc \in {"reading", "waiting"} => Len(strm.out) = strm.pos
        /\ strm.pc = "waiting" => strm.pos = Len(strm.beh.lines)
        /\ strm.pc = "yielded_error" => strm.out = FullStream(strm)
        /\ api = Api("execute_stream", "returned") => strm.out = FullStream(strm)

\* a stream of two lines from a process that exits with code 5 has ended
C15_Witness ==
    /\ api = Api("execute_stream", "returned")
    /\ strm.beh.exit_code = 5
    /\ strm.out = << <<"Line 1">>, <<"Line 2">>,
                     <<"ERROR: ", "Resource not found", ": ", "x not found">> >>

\* the consumer of the stream was cancelled after the subprocess was spawned
StreamCancelled ==
    /\ api = Api("execute_stream", "raised")
    /\ ret.exc = CancelledError
    /\ strm.spawns = 1

\* C16: if the consumer of execute_stream is cancelled at any point after the
\* subprocess has been spawned (the generator waiting for the next line, or
\* suspended after yielding a line), the subprocess is killed and its exit
\* awaited before the cancellation propagates: no spawned process is left
\* running.
C16_CancelledStreamLeavesNoProcess ==
    StreamCancelled => ~strm.alive

\* the consumer was cancelled while it held a yielded line: the generator is
\* abandoned at its yield, process.kill() was never called and the process
\* has not been waited for
C16_Witness ==
    /\ StreamCancelled
    /\ strm.pc = "abandoned"
    /\ strm.out = << <<"Line 1">> >>
    /\ strm.kills = 0
    /\ strm.alive

\* the value of variable k after layering: the inherited environment, then
\* settings.get_cli_env(), then context.environment, then the session id
Layered(context, k) ==
    IF k = "VIRTUOSO_SESSION_ID" /\ context.session_id \notin {None, <<>>}
    THEN context.session_id
    ELSE IF context.environment[k] # None THEN context.environment[k]
    ELSE IF get_cli_env[k] # None THEN get_cli_env[k]
    ELSE os_environ[k]

\* C17: the environment passed to the subprocess is built by layering, later
\* layers overriding earlier ones: the inherited process environment, then
\* settings.get_cli_env(), then context.environment, then
\* VIRTUOSO_SESSION_ID = context.session_id when a session id is present; so
\* whenever context.session_id is set, VIRTUOSO_SESSION_ID equals it even if
\* context.environment supplies another value for that key.
C17_EnvironmentLayering ==
    /\ \A i \in Tasks :
          task[i].spawns = 1 =>
             \A k \in EnvKeys : task[i].proc.env[k] = Layered(task[i].context, k)
    /\ strm.spawns = 1 =>
          \A k \in EnvKeys : strm.env[k] = Layered(strm.context, k)

\* a process started with session id 12345 under a context whose environment
\* names another session id and another API key
C17_Witness ==
    /\ api.op = "execute"
    /\ task[1].spawns = 1
    /\ task[1].context.session_id = <<"12345">>
    /\ task[1].context.environment["VIRTUOSO_SESSION_ID"] = <<"999">>
    /\ task[1].proc.env["VIRTUOSO_SESSION_ID"] = <<"12345">>
    /\ task[1].proc.env["VIRTUOSO_API_KEY"] = <<"other">>
    /\ task[1].proc.env["PATH"] = <<"/usr/bin">>

\* C18: no exception ever propagates out of execute_batch, in any state of
\* the executor (also after shutdown() has been called on it): every per-item
\* failure, at submission or at collection, is turned into a synthetic failed
\* CommandResult for that item only.
C18_BatchNeverRaises ==
    api.op = "execute_batch" =>
        /\ api.pc # "raised"
        /\ ret.kind # "raised"
        /\ api.pc = "returned" => Len(ret.results) = Len(task)

\* execute_batch called with commands on an executor that was shut down: the
\* submission raised RuntimeError to the caller and nothing was returned
C18_Witness ==
    /\ shut
    /\ api = Api("execute_batch", "raised")
    /\ ret.kind = "raised"
    /\ ret.exc = RuntimeError
    /\ ret.results = <<>>

\* item i of a batch timed out: the collection wait for it expired, or its
\* execute raised CommandTimeoutError
BatchItemTimedOut(i) ==
    \/ ret.results[i] = batch_timeout_result(task[i])
    \/ task[i].exc = CommandTimeoutError

\* C19: in execute_batch every item whose execution times out is reported as
\* a failed CommandResult with exit_code 8 (the timeout code), and the results
\* of the other items are unaffected.
C19_BatchTimeoutIsExitCode8 ==
    api = Api("execute_batch", "returned") =>
        \A i \in Tasks :
            /\ BatchItemTimedOut(i) =>
                  /\ ret.results[i].success = FALSE
                  /\ ret.results[i].exit_code = 8
            /\ ~BatchItemTimedOut(i) => ret.results[i] = task[i].result

\* a returned batch with an item whose execute killed its process after the
\* context timeout of 1 and raised CommandTimeoutError: the item is reported
\* with exit code -1
C19_Witness ==
    /\ api = Api("execute_batch", "returned")
    /\ \E i \in Tasks :
          /\ task[i].exc = CommandTimeoutError
          /\ task[i].kills = 1
          /\ ret.results[i].exit_code = -1
          /\ ret.results[i].error = <<"Command timed out after ", "1", " seconds">>

\* a call of get_available_commands that has taken the lock
Entered(t) == caller[t].pc \in {"executing", "returned", "raised"}

\* C20: get_available_commands memoizes: after one call has succeeded with a
\* non-empty parsed output, every later call with force_refresh false returns
\* the cached value without executing list-commands again, and every call
\* with force_refresh true executes list-commands again.
C20_CacheMemoizes ==
    /\ warmed => TruthyParsed(_commands_cache)
    /\ \A t \in Threads :
          Entered(t) =>
             /\ caller[t].entry_warmed /\ ~caller[t].force_refresh =>
                   /\ ~caller[t].executed
                   /\ caller[t].pc = "returned"
                   /\ caller[t].result = caller[t].entry_cache
                   /\ TruthyParsed(caller[t].result)
             /\ caller[t].force_refresh => caller[t].executed

\* with the cache filled, one thread got the cached value without executing
\* and the other, forcing a refresh, executed list-commands again
C20_Witness ==
    /\ caller[1].pc = "returned"
    /\ caller[1].entry_warmed
    /\ ~caller[1].force_refresh
    /\ ~caller[1].executed
    /\ caller[1].result = ParsedDict(<<"id", "1">>)
    /\ caller[2].entry_warmed
    /\ caller[2].force_refresh
    /\ caller[2].executed
    /\ caller[2].pc = "returned"

\* the list-commands subprocess of thread t is running
CacheProcessRunning(t) ==
    caller[t].pc = "executing" /\ caller[t].exec.pc = "running"

\* C21 as stated: the lock guarding the available-commands cache is never
\* held while the list-commands subprocess is running, so a second caller is
\* never blocked for the duration of another caller's subprocess.
C21_LockFreeDuringSubprocess ==
    \A t \in Threads :
        CacheProcessRunning(t) =>
            /\ _cache_lock # t
            /\ \A u \in Threads : caller[u].pc # "blocked"

\* C21 amended: a thread holds the lock from the cache test until its call
\* returns or raises, the run of the list-commands subprocess included; at
\* most one thread executes list-commands at a time and the other callers
\* stay blocked meanwhile.
C21_LockHeldDuringSubprocess ==
    /\ \A t \in Threads : caller[t].pc = "executing" <=> _cache_lock = t
    /\ \A t, u \in Threads :
          caller[t].pc = "executing" /\ caller[u].pc = "executing" => t = u
    /\ \A t, u \in Threads :
          CacheProcessRunning(t) /\ caller[u].pc = "blocked" => ~ENABLED CacheEnter(u)

\* the subprocess of thread 1 runs, thread 1 holds the lock and thread 2 is
\* blocked at the with statement
C21_Witness ==
    /\ CacheProcessRunning(1)
    /\ _cache_lock = 1
    /\ caller[2].pc = "blocked"

\* C22: under any interleaving of concurrent get_executor() calls at most one
\* CLIExecutor is ever constructed, and every caller that is handed an
\* instance is handed that one.
C22_SingletonConstructedOnce ==
    /\ Cardinality(constructed) <= 1
    /\ \A g \in Getters :
          getter[g].pc = "returned" =>
              /\ getter[g].result # 0
              /\ constructed = {getter[g].result}

\* all the threads found _executor to be None in the unlocked test, went
\* through the lock one after the other, and all have returned
C22_Witness ==
    \A g \in Getters : getter[g].pc = "returned" /\ getter[g].locked

\* C23: CLIExecutor.shutdown drains in-flight work: it returns only after
\* every command submitted to the worker pool, running or queued, has
\* completed, and no submitted command is dropped.
C23_ShutdownDrainsPool ==
    stopper.pc = "returned" =>
        /\ \A i \in PoolTasks : task[i].pc = "returned" \/ task[i].pc = "raised"
        /\ stopper.waited => PoolTasks # {}

\* shutdown was called while commands of a batch of three were queued or
\* running, and it has returned
C23_Witness ==
    /\ stopper.pc = "returned"
    /\ stopper.waited
    /\ Len(task) = 3

\* C25 as stated: execute_batch called with max_concurrent = k never has more
\* than k of its commands executing at the same time.
C25_AtMostMaxConcurrentRunning ==
    api.op = "execute_batch" /\ coll.max_concurrent # 0 =>
        Cardinality(Running) <= coll.max_concurrent

\* the batch was called with max_concurrent = 1 and two of its commands are
\* executing at the same time
C25_Witness ==
    /\ api.op = "execute_batch"
    /\ coll.max_concurrent = 1
    /\ Cardinality(Running) = 2

\* C29 as stated: when execute_batch returns, no subprocess started for any
\* of its items is still running; an item reported with the synthetic
\* 'Command timed out' result has had its process killed, also when
\* context.timeout is larger than default_timeout.
C29_NoProcessOutlivesBatch ==
    api = Api("execute_batch", "returned") =>
        /\ Running = {}
        /\ \A i \in Tasks :
              ret.results[i] = batch_timeout_result(task[i]) /\ task[i].spawns > 0 =>
                  task[i].kills > 0

\* a returned batch called with a context timeout of 3 above the default of
\* 2: an item is reported with the synthetic timeout result while its
\* process, spawned and never killed, is still running
C29_Witness ==
    /\ api = Api("execute_batch", "returned")
    /\ \E i \in Tasks :
          /\ ret.results[i] = batch_timeout_result(task[i])
          /\ task[i].context.timeout > default_timeout
          /\ task[i].pc = "running"
          /\ task[i].spawns = 1
          /\ task[i].kills = 0

\* C30 as stated: parsing then building preserves the tokens: for every
\* command string whose tokens are t0..tn (empty-string tokens such as a
\* quoted "" included; an optional leading "api-cli " removed),
\* build_command_args applied to the result of parse_command yields exactly
\* [cli_path, t0, ..., tn] followed by the output-format pair (no pair for
\* the raw format), with no token dropped, duplicated or reordered.
C30_ParseThenBuildKeepsTokens ==
    fn = "parse_then_build" =>
        fout.cmd_args =
            <<cli_path>> \o WordsOf(fin.command).parts
            \o (IF fin.output_format # RAW
                THEN << <<"--output">>, <<fin.output_format>> >> ELSE <<>>)

\* library "" 7 is parsed and built: the empty subcommand is gone and 7
\* stands in its place
C30_Witness ==
    /\ fn = "parse_then_build"
    /\ fin.command = <<"library", " ", "\"", "\"", " ", "7">>
    /\ fin.output_format = JSON
    /\ WordsOf(fin.command).parts = << <<"library">>, <<>>, <<"7">> >>
    /\ fout.cmd_args = << cli_path, <<"library">>, <<"7">>, <<"--output">>, <<JSON>> >>

\* the commands of the request that failed, in the order of the results
FailedIdx == {route.response.results[k].idx :
                 k \in {j \in 1..Len(route.response.results) :
                           route.response.results[j].kind = "error"}}

RECURSIVE AdmittedBetween(_, _, _, _, _)
AdmittedBetween(via, path, k, from, to) ==
    IF from > to \/ from > MaxTime THEN 0
    ELSE admitted[via][path][k][from] + AdmittedBetween(via, path, k, from + 1, to)

\* the requests let through in some interval of window_seconds are at most limit
WithinLimit(via, path, limit) ==
    \A k \in Identifiers, t0 \in 0..MaxTime :
        AdmittedBetween(via, path, k, t0, t0 + config_of(via).window_seconds - 1) <= limit

\* C26 as stated: when Redis is unreachable the rate_limit(requests=N,
\* window_seconds=W) dependency still limits through the in-process
\* fallback: of N+1 requests by the same user to the same endpoint within W
\* seconds the last one is rejected.
C26_DependencyLimitsWithoutRedis ==
    WithinLimit("dependency", "local", config_of("dependency").requests)

\* Redis is down and the dependency, with requests = 2, has let through three
\* requests of one user in one second
C26_Witness ==
    /\ ~redis_up
    /\ admitted["dependency"]["local"]["user:1"][0] = config_of("dependency").requests + 1

\* C27 as stated: for one RateLimiter using the local fallback and one
\* (identifier, endpoint) key, the number of requests admitted inside any
\* time interval of length window_seconds never exceeds
\* int(requests * burst_multiplier), as a sliding window requires.
C27_LocalFallbackSlidingWindow ==
    WithinLimit("middleware", "local", allowed_requests(config_of("middleware")))

\* the middleware's limiter, with a limit of 2 in 2 seconds, let through
\* one request in second 2 at the end of the window that began in second 0,
\* and two more in second 3
C27_Witness ==
    /\ admitted["middleware"]["local"]["user:1"][0] = 1
    /\ admitted["middleware"]["local"]["user:1"][2] = 1
    /\ admitted["middleware"]["local"]["user:1"][3] = 2

\* C28 as stated: on the Redis path the count check and the counter
\* increment act atomically: under any interleaving of concurrent requests
\* with the same identifier and endpoint, the number admitted within one
\* window never exceeds int(requests * burst_multiplier).
C28_RedisCheckAndIncrementAtomic ==
    \A via \in Vias : WithinLimit(via, "redis", allowed_requests(config_of(via)))

\* three requests that arrived in the same second all read a count below the
\* limit of 2 before any of them incremented it, and all three were admitted
C28_Witness ==
    /\ admitted["middleware"]["redis"]["user:1"][0] = 3
    /\ redis["user:1"][0] = 3

====
